---- MODULE Spec2Model ----
(***************************************************************************)
(* State-machine model of the MDN documentation hover extension: the       *)
(* two-tier cache service (cache.ts), the documentation fetcher (mdn.ts)   *)
(* and the singleton protocol used at activation (extension.ts).           *)
(*                                                                         *)
(* One asynchronous call is cut at its awaits: each action is the code     *)
(* that runs between two awaits, so every interleaving TLC explores is an  *)
(* interleaving the single-threaded event loop allows.                     *)
(***************************************************************************)
EXTENDS Integers, Naturals, Sequences, FiniteSets, TLC

(***************************************************************************)
(* Bounds of the model.                                                    *)
(***************************************************************************)
MaxCalls == 2
MaxTicks == 2
MaxNodes == 3

(***************************************************************************)
(* Program constants.                                                      *)
(***************************************************************************)
EXTENSION_VERSION == "1.0.1"
PREVIOUS_VERSION == "1.0.0"
maxCacheAge == 24 * 60 * 60 * 1000

(* the clock advances in steps of twelve hours *)
ClockStep == maxCacheAge \div 2
StartTime == maxCacheAge

Procs == 1..MaxCalls
Elements == {"video", "a"}
Languages == {"en-US"}
Attributes == {"controls", "title"}

(* the owning element fetchElementAttribute is given; "" when it is given none *)
OwningElements == {""} \cup Elements

(***************************************************************************)
(* JavaScript values.  A value of type string | undefined.                 *)
(***************************************************************************)
Undefined == [defined |-> FALSE, str |-> ""]
Str(s) == [defined |-> TRUE, str |-> s]

(* !value for a string | undefined value *)
Falsy(v) == (~v.defined) \/ v.str = ""

(***************************************************************************)
(* mdn.ts: the key and the URL of an element request.                      *)
(***************************************************************************)
DocumentationUrlElement(element, language) ==
    "https://developer.mozilla.org/" \o language \o "/docs/Web/HTML/Element/" \o element

CacheKeyElement(element, language) ==
    "mdn-docs-html-element-" \o element \o "-" \o language

(* fetchGlobalAttribute, lines 254-255 *)
DocumentationUrlGlobalAttribute(attribute, language) ==
    "https://developer.mozilla.org/" \o language \o "/docs/Web/HTML/Global_attributes/"
    \o attribute

(* a key of global attributes that starts like the key of element         *)
(* attributes                                                              *)
CacheKeyGlobalAttributeAsElementAttribute(attribute, language) ==
    "mdn-docs-html-element-attribute-" \o attribute \o "-" \o language

CacheKeyGlobalAttribute(attribute, language) ==
    "mdn-docs-html-global-attribute-" \o attribute \o "-" \o language

(* fetchElementAttribute, lines 286-287 *)
DocumentationUrlElementAttribute(attribute, language) ==
    "https://developer.mozilla.org/" \o language \o "/docs/Web/HTML/Attributes/" \o attribute

CacheKeyElementAttribute(attribute, language) ==
    "mdn-docs-html-element-attribute-" \o attribute \o "-" \o language

(* the keys of the element requests *)
ElementKeys == { CacheKeyElement(e, l) : e \in Elements, l \in Languages }

Keys ==
    ElementKeys
    \cup { CacheKeyGlobalAttribute(a, l) : a \in Attributes, l \in Languages }
    \cup { CacheKeyElementAttribute(a, l) : a \in Attributes, l \in Languages }

(***************************************************************************)
(* A fetched page.  sectionContent says whether the page holds a           *)
(* <div class="section-content">; body is what that region contains.       *)
(***************************************************************************)
Pages == { [sectionContent |-> TRUE,  body |-> "A"],
           [sectionContent |-> TRUE,  body |-> "B"],
           [sectionContent |-> FALSE, body |-> ""] }

ExtractDocumentation(page) ==
    IF page.sectionContent
       THEN Str("<div class=\"section-content\">" \o page.body \o "</div>")
       ELSE Undefined

(* what the remote server answers: a 2xx page, a non-2xx status, or the    *)
(* request itself throws                                                   *)
Responses == { [kind |-> "ok", page |-> pg] : pg \in Pages }
             \cup { [kind |-> "status", page |-> [sectionContent |-> FALSE, body |-> ""]],
                    [kind |-> "exception", page |-> [sectionContent |-> FALSE, body |-> ""]] }

(* MdnDocsLoader.fetch: every failure is caught and becomes undefined *)
Fetch(response) ==
    IF response.kind = "ok" THEN ExtractDocumentation(response.page) ELSE Undefined

(***************************************************************************)
(* browser.ts: the compatibility summary of an element.  bcd is the static *)
(* dataset: per element the (browser, first statement) pairs in the        *)
(* dataset's order; an element without __compat has no entry.              *)
(***************************************************************************)
(* a version_added / version_removed value: a string, a boolean or null *)
VersionString(s) == [type |-> "string",  str |-> s,  bool |-> FALSE]
VersionBool(b)   == [type |-> "boolean", str |-> "", bool |-> b]
VersionNull      == [type |-> "null",    str |-> "", bool |-> FALSE]

Truthy(v) == (v.type = "string" /\ v.str # "") \/ (v.type = "boolean" /\ v.bool)

bcdElements ==
    [ video |-> << [browser |-> "chrome",
                    version_added |-> VersionString("3"), version_removed |-> VersionNull],
                   [browser |-> "firefox",
                    version_added |-> VersionBool(TRUE), version_removed |-> VersionNull] >> ]

(* bcd.html.global_attributes: the global attributes that have __compat *)
bcdGlobalAttributes ==
    [ title |-> << [browser |-> "chrome",
                    version_added |-> VersionString("1"), version_removed |-> VersionNull] >> ]

(* bcd.html.elements[element][attribute]: per element of the dataset its   *)
(* attributes that have __compat                                           *)
bcdElementAttributes ==
    [ video |-> [ controls |-> << [browser |-> "chrome",
                                   version_added |-> VersionString("3"),
                                   version_removed |-> VersionNull],
                                  [browser |-> "ie",
                                   version_added |-> VersionBool(FALSE),
                                   version_removed |-> VersionString("9")] >> ] ]

(* browserNames[browser] || browser: the display-name table, and the       *)
(* identifier itself for a browser the table does not hold                 *)
browserNames(browser) ==
    CASE browser = "chrome"                  -> "Chrome"
      [] browser = "chrome_android"          -> "Chrome Android"
      [] browser = "deno"                    -> "Deno"
      [] browser = "edge"                    -> "Edge"
      [] browser = "firefox"                 -> "Firefox"
      [] browser = "firefox_android"         -> "Firefox Android"
      [] browser = "ie"                      -> "IE"
      [] browser = "nodejs"                  -> "Node.js"
      [] browser = "oculus"                  -> "Oculus"
      [] browser = "opera"                   -> "Opera"
      [] browser = "opera_android"           -> "Opera Android"
      [] browser = "safari"                  -> "Safari"
      [] browser = "safari_ios"              -> "Safari iOS"
      [] browser = "samsunginternet_android" -> "Samsung Internet Android"
      [] browser = "webview_android"         -> "WebView Android"
      [] browser = "webview_ios"             -> "WebView iOS"
      [] OTHER                               -> browser

(* statement.version_added || statement.version_removed *)
ChosenVersion(statement) ==
    IF Truthy(statement.version_added)
       THEN statement.version_added
       ELSE statement.version_removed

(* parseSimpleSupportStatement with present: true in every entry *)
ParseSimpleSupportStatementAlwaysPresent(browser, statement) ==
    LET version == ChosenVersion(statement)
    IN  IF version.type = "string"
           THEN << [browser |-> browserNames(browser),
                    version |-> version.str,
                    present |-> TRUE] >>
           ELSE << >>

ParseSimpleSupportStatement(browser, statement) ==
    LET version == ChosenVersion(statement)
    IN  IF version.type = "string"
           THEN << [browser |-> browserNames(browser),
                    version |-> version.str,
                    present |-> Truthy(statement.version_added)] >>
           ELSE << >>

RECURSIVE ParseCompat(_)
ParseCompat(support) ==
    IF support = << >> THEN << >>
    ELSE ParseSimpleSupportStatement(Head(support).browser, Head(support))
         \o ParseCompat(Tail(support))

(* Array.isArray(support) ? support[0] : support.  A support statement is  *)
(* a non-empty sequence of simple statements: one statement, or the array  *)
(* of them, of which only the first is read.                               *)
(* a parseSupportStatement that reads the last statement of the array *)
ParseSupportStatementLast(browser, support) ==
    ParseSimpleSupportStatement(browser, support[Len(support)])

ParseSupportStatement(browser, support) ==
    ParseSimpleSupportStatement(browser, support[1])

(* The support blocks the summarizer is run on.  version_added is a        *)
(* version string, the "preview" sentinel, a boolean or null;              *)
(* version_removed is a version string or missing (null here).             *)
MaxEntries == 2

BrowserIds == {"chrome", "ie", "servo"}

SimpleSupportStatements ==
    [ version_added   : { VersionString("32"), VersionString("preview"),
                          VersionBool(TRUE), VersionBool(FALSE), VersionNull },
      version_removed : { VersionNull, VersionString("9") } ]

LaterStatements ==
    { [version_added |-> VersionString("1"), version_removed |-> VersionNull],
      [version_added |-> VersionBool(FALSE), version_removed |-> VersionNull] }

SupportStatements ==
    { << s >> : s \in SimpleSupportStatements }
    \cup { << s, t >> : s \in SimpleSupportStatements, t \in LaterStatements }

SupportEntries == [ browser : BrowserIds, support : SupportStatements ]

(* Object.entries(compat.support): one entry per browser, in the order of  *)
(* the dataset                                                             *)
SupportBlocks ==
    { entries \in UNION { [1..n -> SupportEntries] : n \in 0..MaxEntries } :
        \A i, j \in DOMAIN entries : i # j => entries[i].browser # entries[j].browser }

SummarizerIdle ==
    [ pc |-> "idle", entries |-> << >>, i |-> 0, mapped |-> << >>, result |-> << >> ]

NoSummary == [defined |-> FALSE, list |-> << >>]

GetBrowserCompatDataForElement(element) ==
    IF element \in DOMAIN bcdElements
       THEN [defined |-> TRUE, list |-> ParseCompat(bcdElements[element])]
       ELSE NoSummary

(* line 54-60 *)
GetBrowserCompatDataForGlobalAttribute(attribute) ==
    IF attribute \in DOMAIN bcdGlobalAttributes
       THEN [defined |-> TRUE, list |-> ParseCompat(bcdGlobalAttributes[attribute])]
       ELSE NoSummary

(* line 71: bcd.html.elements[element] is indexed with no guard, so an     *)
(* element the dataset does not hold raises a TypeError                    *)
ElementAttributeLookupThrows(element, attribute) ==
    element \notin DOMAIN bcdElementAttributes

(* lines 71-77, for an element of the dataset *)
GetBrowserCompatDataForElementAttribute(element, attribute) ==
    IF attribute \in DOMAIN bcdElementAttributes[element]
       THEN [defined |-> TRUE, list |-> ParseCompat(bcdElementAttributes[element][attribute])]
       ELSE NoSummary

(* lines 363-366: one item of the compatibility list *)
CompatItem(item) ==
    item.browser \o " (<i>" \o (IF item.present THEN ">= " ELSE "<= ") \o "</i> <strong>v"
    \o item.version \o "</strong>)"

(* lines 362-367: map and join(", ") *)
RECURSIVE BrowserCompatList(_)
BrowserCompatList(summary) ==
    IF summary = << >> THEN ""
    ELSE IF Len(summary) = 1 THEN CompatItem(Head(summary))
    ELSE CompatItem(Head(summary)) \o ", " \o BrowserCompatList(Tail(summary))

(* the MarkdownString: value is what the constructor and appendMarkdown    *)
(* put into it, in the order they are appended                             *)
BuildMarkdownString(content, url, browserCompatSummary) ==
    [ kind    |-> "RichDoc",
      content |-> content,
      compat  |-> browserCompatSummary,
      url     |-> url,
      value   |-> << content >>
                  \o (IF browserCompatSummary.defined
                         THEN << "<p><small><strong>Browser Compatibility</strong>: "
                                 \o BrowserCompatList(browserCompatSummary.list)
                                 \o "</small></p>" >>
                         ELSE << >>)
                  \o << "\n\n[MDN Reference](" \o url \o ")" >> ]

Absent == [kind |-> "Absent", content |-> "", compat |-> NoSummary, url |-> "", value |-> << >>]
Raised == [kind |-> "Raised", content |-> "", compat |-> NoSummary, url |-> "", value |-> << >>]
Pending == [kind |-> "Pending", content |-> "", compat |-> NoSummary, url |-> "", value |-> << >>]

(***************************************************************************)
(* cache.ts: a CacheItem, and the record the persistent tier holds.        *)
(***************************************************************************)
NoItem == [none |-> TRUE]

(* an item that is stamped with no lifetime *)
CacheItemNoTtl(data, createdAt) ==
    [ data      |-> data,
      timestamp |-> createdAt,
      expiresAt |-> createdAt,
      version   |-> EXTENSION_VERSION ]

CacheItem(data, createdAt) ==
    [ data      |-> data,
      timestamp |-> createdAt,
      expiresAt |-> createdAt + maxCacheAge,
      version   |-> EXTENSION_VERSION ]

(* JSON.stringify drops a property whose value is undefined *)
JSONStringify(item) ==
    [ json      |-> TRUE,
      hasData   |-> item.data.defined,
      data      |-> IF item.data.defined THEN item.data.str ELSE "",
      timestamp |-> item.timestamp,
      expiresAt |-> item.expiresAt,
      version   |-> item.version ]

(* content that is not JSON *)
Garbage == [json |-> FALSE]

(* JSON.parse of a parsable content; a missing property reads as undefined *)
JSONParse(content) ==
    [ data      |-> IF content.hasData THEN Str(content.data) ELSE Undefined,
      timestamp |-> content.timestamp,
      expiresAt |-> content.expiresAt,
      version   |-> content.version ]

NoFile == [kind |-> "none"]
UnreadableFile == [kind |-> "unreadable"]
File(content) == [kind |-> "file", content |-> content]

(* a validity test that forgets the version *)
IsValidIgnoringVersion(item, clock) ==
    /\ item # NoItem
    /\ item.expiresAt > clock

(* the validity test of getOrFetch, the same for both tiers *)
IsValid(item, clock) ==
    /\ item # NoItem
    /\ item.expiresAt > clock
    /\ item.version = EXTENSION_VERSION

(* an expiry test that spares the item expiring at this very instant *)
IsExpiredStrictly(item, clock) == item.expiresAt < clock

(* the expiry test of cleanCache *)
IsExpired(item, clock) == item.expiresAt <= clock


(***************************************************************************)
(* The DOM of a content region.  Node 0 is the region itself, the          *)
(* <div class="section-content">; the nodes below it are numbered in       *)
(* document order of their start tags, so that a parent has a smaller      *)
(* number than its children and siblings are ordered by number.            *)
(***************************************************************************)
NodeIds == 1..MaxNodes
Root == 0

(* parentNode of a node that was removed from its parent *)
Detached == -1

(* an attribute value: getAttribute gives null for an attribute not there *)
NoAttribute == [present |-> FALSE, value |-> ""]
Attribute(v) == [present |-> TRUE, value |-> v]

(* the nodes a page can hold: elements, anchors with a relative, an        *)
(* absolute or no href, and text                                           *)
NodeShapes ==
    { [nodeName |-> "p",      href |-> NoAttribute],
      [nodeName |-> "script", href |-> NoAttribute],
      [nodeName |-> "style",  href |-> NoAttribute],
      [nodeName |-> "a",      href |-> NoAttribute],
      [nodeName |-> "a",      href |-> Attribute("/en-US/docs/Web/HTML")],
      [nodeName |-> "a",      href |-> Attribute("https://example.org/page")],
      [nodeName |-> "#text",  href |-> NoAttribute] }

IsElement(nodeName) == nodeName # "#text"

(* the content regions the parser can hand over: only elements have        *)
(* children                                                                *)
ContentRegions ==
    { r \in [parentNode : [NodeIds -> 0..(MaxNodes - 1)], node : [NodeIds -> NodeShapes]] :
        \A n \in NodeIds :
            /\ r.parentNode[n] < n
            /\ r.parentNode[n] # Root => IsElement(r.node[r.parentNode[n]].nodeName) }

AllNodes == [n \in NodeIds |-> n]

(* node.childNodes, in document order *)
ChildNodes(parentNode, node) == SelectSeq(AllNodes, LAMBDA c : parentNode[c] = node)

(* the nodes below the nodes of a list, in document order *)
RECURSIVE DocumentOrder(_, _)
DocumentOrder(parentNode, nodes) ==
    IF nodes = << >> THEN << >>
    ELSE << Head(nodes) >>
         \o DocumentOrder(parentNode, ChildNodes(parentNode, Head(nodes)))
         \o DocumentOrder(parentNode, Tail(nodes))

(* document.getElementsByTagName(tagName): the live list, as it is now *)
GetElementsByTagName(parentNode, nodeName, tagName) ==
    SelectSeq(DocumentOrder(parentNode, ChildNodes(parentNode, Root)),
              LAMBDA n : nodeName[n] = tagName)

(* `https://developer.mozilla.org${href}`: a null href prints as null *)
PrefixedHref(href) ==
    Attribute("https://developer.mozilla.org" \o (IF href.present THEN href.value ELSE "null"))

(* an allow-list that lets script elements through *)
allowedTagsWithScript == {"a", "code", "div", "p", "script", "span", "strong"}

(* line 412 *)
allowedTags == {"a", "code", "div", "p", "span", "strong"}

(* XMLSerializer.serializeToString, as the list of its tags and texts *)
StartTag(nodeName, href) ==
    IF href.present THEN "<" \o nodeName \o " href=\"" \o href.value \o "\">"
    ELSE "<" \o nodeName \o ">"

EndTag(nodeName) == "</" \o nodeName \o ">"

RECURSIVE SerializeNodes(_, _, _, _)
SerializeNodes(parentNode, nodeName, href, nodes) ==
    IF nodes = << >> THEN << >>
    ELSE LET n == Head(nodes)
         IN  (IF IsElement(nodeName[n])
                 THEN << StartTag(nodeName[n], href[n]) >>
                      \o SerializeNodes(parentNode, nodeName, href, ChildNodes(parentNode, n))
                      \o << EndTag(nodeName[n]) >>
                 ELSE << "text" >>)
             \o SerializeNodes(parentNode, nodeName, href, Tail(nodes))

SerializeToString(parentNode, nodeName, href) ==
    << "<div class=\"section-content\">" >>
    \o SerializeNodes(parentNode, nodeName, href, ChildNodes(parentNode, Root))
    \o << EndTag("div") >>

(* no cleanDocumentation call is in progress *)
SanitizerIdle ==
    [ pc |-> "idle",
      original |-> [n \in NodeIds |-> Root],
      parentNode |-> [n \in NodeIds |-> Root],
      nodeName |-> [n \in NodeIds |-> "#text"],
      originalHref |-> [n \in NodeIds |-> NoAttribute],
      href |-> [n \in NodeIds |-> NoAttribute],
      i |-> 0,
      nodesToCheck |-> << >>,
      newNodesToCheck |-> << >>,
      visited |-> << >>,
      result |-> << >> ]

(***************************************************************************)
(* State.                                                                  *)
(***************************************************************************)
VARIABLES
    instance,        \* CacheStorageService.instance: 0 is null, else the id of the object
    created,         \* how many CacheStorageService objects were constructed
    lastCall,        \* the latest initialize() / getInstance() call, what it gave, and
                     \* whether an initialize() found an instance already there
    memoryCache,     \* the memory tier of the instance: key -> CacheItem or NoItem
    disk,            \* the persistent tier: key -> the file <key>.json in cacheDir
    cacheDirExists,  \* whether the cache directory exists
    ensure,          \* position of the constructor's un-awaited ensureCacheDirExists()
    now,             \* Date.now()
    calls,           \* the getOrFetch / fetchHtmlElement calls, in the order issued
    sweep,           \* the cleanCache call in flight
    sanitizer,       \* the cleanDocumentation call in progress, with its DOM
    received,        \* per call, the answer its HTTP request got ("" before that)
    summarizer,      \* the parseCompat call in progress
    hover,           \* per hover request, the provideHover call and its token
    keyRequests,     \* the requests whose cache key was derived, with the key
    extraction       \* the extractDocumentation call in progress, with its document

vars == << instance, created, lastCall, memoryCache, disk, cacheDirExists, ensure,
           now, calls, sweep, sanitizer, received, summarizer, hover, keyRequests,
           extraction >>

(* no extractDocumentation call yet *)
ExtractionIdle == [ pc |-> "idle", document |-> << >>, sectionContent |-> 0 ]

(* no provideHover call yet *)
HoverIdle ==
    [ pc |-> "idle", provider |-> "", word |-> "", tagName |-> "",
      cancelledAtEntry |-> FALSE, isCancellationRequested |-> FALSE, result |-> "" ]

Idle ==
    [ pc |-> "idle", entry |-> "", element |-> "", attribute |-> "", language |-> "",
      key |-> "",
      item |-> NoItem, data |-> Undefined, status |-> "pending", outcome |-> Pending,
      invoked |-> 0, served |-> "", diskRead |-> FALSE, found |-> "" ]

SweepIdle == [ pc |-> "idle", now |-> 0, entries |-> {}, file |-> "" ]

(* records a previous session of the extension can have left on disk *)
PriorItems ==
    { [data |-> Str("old"), timestamp |-> 0, expiresAt |-> maxCacheAge,
       version |-> EXTENSION_VERSION],
      [data |-> Str("old"), timestamp |-> ClockStep, expiresAt |-> ClockStep + maxCacheAge,
       version |-> EXTENSION_VERSION],
      [data |-> Str("old"), timestamp |-> ClockStep, expiresAt |-> ClockStep + maxCacheAge,
       version |-> PREVIOUS_VERSION] }

(* the key whose record a previous session left *)
PriorKey == CacheKeyElement("video", "en-US")

PriorFiles ==
    { NoFile, UnreadableFile, File(Garbage) } \cup { File(JSONStringify(i)) : i \in PriorItems }

Init ==
    /\ instance = 0
    /\ created = 0
    /\ lastCall = [op |-> "none", result |-> 0, again |-> FALSE]
    /\ memoryCache = [k \in Keys |-> NoItem]
    /\ cacheDirExists \in BOOLEAN
    /\ \E file \in PriorFiles :
          disk = [k \in Keys |-> IF cacheDirExists /\ k = PriorKey THEN file ELSE NoFile]
    /\ ensure = "idle"
    /\ now = StartTime
    /\ calls = [p \in Procs |-> Idle]
    /\ sweep = SweepIdle
    /\ sanitizer = SanitizerIdle
    /\ summarizer = SummarizerIdle
    /\ hover = [p \in Procs |-> HoverIdle]
    /\ keyRequests = << >>
    /\ extraction = ExtractionIdle
    /\ received = [p \in Procs |-> ""]

(***************************************************************************)
(* The singleton protocol.                                                 *)
(***************************************************************************)
(* new CacheStorageService(...): a fresh memory tier, and the constructor  *)
(* starts ensureCacheDirExists() without awaiting it; when the directory   *)
(* exists its stat succeeds and the call does nothing more                 *)
Construct ==
    /\ created' = created + 1
    /\ instance' = created + 1
    /\ memoryCache' = [k \in Keys |-> NoItem]
    /\ ensure' = IF cacheDirExists THEN "done" ELSE "pending"

InitializeAlwaysConstructs ==
    /\ Construct
    /\ lastCall' = [op |-> "initialize", result |-> instance', again |-> instance # 0]
    /\ UNCHANGED << extraction, keyRequests, hover, summarizer, sanitizer, received, disk, cacheDirExists, now, calls, sweep >>

Initialize ==
    /\ IF instance = 0
          THEN Construct
          ELSE UNCHANGED << instance, created, memoryCache, ensure >>
    /\ lastCall' = [op |-> "initialize", result |-> instance', again |-> instance # 0]
    /\ UNCHANGED << extraction, keyRequests, hover, summarizer, sanitizer, received, disk, cacheDirExists, now, calls, sweep >>

(* result 0 stands for the thrown Error *)
GetInstance ==
    /\ lastCall' = [op |-> "getInstance", result |-> instance, again |-> FALSE]
    /\ UNCHANGED << extraction, keyRequests, hover, summarizer, sanitizer, received, instance, created, memoryCache, disk, cacheDirExists, ensure,
                    now, calls, sweep >>

(* stat has thrown: createDirectory, which can fail *)
EnsureCacheDirExists ==
    /\ ensure = "pending"
    /\ ensure' = "done"
    /\ \E createOk \in BOOLEAN : cacheDirExists' = createOk
    /\ UNCHANGED << extraction, keyRequests, hover, summarizer, sanitizer, received, instance, created, lastCall, memoryCache, disk, now, calls,
                    sweep >>

(* a disposal that deletes the persistent records as well *)
DisposeRemovingRecords ==
    /\ instance # 0
    /\ memoryCache' = [k \in Keys |-> NoItem]
    /\ disk' = [k \in Keys |-> NoFile]
    /\ UNCHANGED << extraction, keyRequests, hover, summarizer, sanitizer, received, instance, created, lastCall, cacheDirExists, ensure, now,
                    calls, sweep >>

Dispose ==
    /\ instance # 0
    /\ memoryCache' = [k \in Keys |-> NoItem]
    /\ UNCHANGED << extraction, keyRequests, hover, summarizer, sanitizer, received, instance, created, lastCall, disk, cacheDirExists, ensure, now,
                    calls, sweep >>

Tick ==
    /\ now < StartTime + MaxTicks * ClockStep
    /\ now' = now + ClockStep
    /\ UNCHANGED << extraction, keyRequests, hover, summarizer, sanitizer, received, instance, created, lastCall, memoryCache, disk, cacheDirExists,
                    ensure, calls, sweep >>


(***************************************************************************)
(* getOrFetch, and fetchHtmlElement around it.                             *)
(***************************************************************************)
(* what fetchHtmlElement makes of the documentation getOrFetch returned *)
HtmlElementResult(element, language, documentation) ==
    IF Falsy(documentation)
       THEN Absent
       ELSE BuildMarkdownString(documentation.str,
                                DocumentationUrlElement(element, language),
                                GetBrowserCompatDataForElement(element))

(* what fetchGlobalAttribute makes of the documentation, lines 262-270 *)
GlobalAttributeResult(attribute, language, documentation) ==
    IF Falsy(documentation)
       THEN Absent
       ELSE BuildMarkdownString(documentation.str,
                                DocumentationUrlGlobalAttribute(attribute, language),
                                GetBrowserCompatDataForGlobalAttribute(attribute))

(* what fetchElementAttribute makes of the documentation, lines 294-308:   *)
(* the compatibility lookup is made only when an element is given, and its *)
(* TypeError is caught, logged and rethrown                                *)
ElementAttributeResult(attribute, element, language, documentation) ==
    IF Falsy(documentation) THEN Absent
    ELSE IF element = ""
       THEN BuildMarkdownString(documentation.str,
                                DocumentationUrlElementAttribute(attribute, language),
                                NoSummary)
    ELSE IF ElementAttributeLookupThrows(element, attribute) THEN Raised
    ELSE BuildMarkdownString(documentation.str,
                             DocumentationUrlElementAttribute(attribute, language),
                             GetBrowserCompatDataForElementAttribute(element, attribute))

(* getOrFetch returns data; a fetch entry point builds its result from it *)
Returned(c, data, served) ==
    [ c EXCEPT !.pc = "done", !.status = "returned", !.data = data, !.served = served,
               !.outcome =
                   CASE c.entry = "fetchHtmlElement" ->
                           HtmlElementResult(c.element, c.language, data)
                     [] c.entry = "fetchGlobalAttribute" ->
                           GlobalAttributeResult(c.attribute, c.language, data)
                     [] c.entry = "fetchElementAttribute" ->
                           ElementAttributeResult(c.attribute, c.element, c.language, data)
                     [] OTHER -> Pending ]

(* getOrFetch rejects; fetchHtmlElement logs and rethrows *)
Thrown(c) ==
    [ c EXCEPT !.pc = "done", !.status = "raised",
               !.outcome = IF c.entry = "getOrFetch" THEN Pending ELSE Raised ]

(* a getOrFetch that joins the producer call already in flight for the key *)
InvokeProducerSingleFlight(p, found) ==
    calls' = [calls EXCEPT
                ![p].pc = "fetch",
                ![p].found = found,
                ![p].invoked = IF \E q \in Procs : /\ q # p
                                                   /\ calls[q].key = calls[p].key
                                                   /\ calls[q].pc = "fetch"
                                  THEN @ ELSE @ + 1]

(* line 92: fetchFn() is called; it settles in a later step.  found is what *)
(* the persistent tier held for the key                                    *)
InvokeProducer(p, found) ==
    calls' = [calls EXCEPT ![p].pc = "fetch", ![p].invoked = @ + 1, ![p].found = found]

(* lines 69-79: the check of the memory tier, up to the first await *)
GetOrFetchStart(p, entry, element, attribute, language, key) ==
    /\ instance # 0
    /\ calls[p].pc = "idle"
    /\ \A q \in Procs : q < p => calls[q].pc # "idle"
    /\ LET c == [ Idle EXCEPT !.entry = entry, !.element = element,
                              !.attribute = attribute, !.language = language,
                              !.key = key ]
           memItem == memoryCache[key]
       IN  IF IsValid(memItem, now)
              THEN calls' = [calls EXCEPT ![p] = Returned(c, memItem.data, "memory")]
              ELSE calls' = [calls EXCEPT ![p] = [c EXCEPT !.pc = "stat", !.diskRead = TRUE]]
    /\ UNCHANGED << extraction, keyRequests, summarizer, sanitizer, received, instance, created, lastCall, memoryCache, disk, cacheDirExists,
                    ensure, now, sweep >>

FetchHtmlElement(p) ==
    \E element \in Elements, language \in Languages :
        GetOrFetchStart(p, "fetchHtmlElement", element, "", language,
                        CacheKeyElement(element, language))
        /\ UNCHANGED hover

FetchGlobalAttribute(p) ==
    \E attribute \in Attributes, language \in Languages :
        GetOrFetchStart(p, "fetchGlobalAttribute", "", attribute, language,
                        CacheKeyGlobalAttribute(attribute, language))
        /\ UNCHANGED hover

FetchElementAttribute(p) ==
    \E attribute \in Attributes, element \in OwningElements, language \in Languages :
        GetOrFetchStart(p, "fetchElementAttribute", element, attribute, language,
                        CacheKeyElementAttribute(attribute, language))
        /\ UNCHANGED hover

GetOrFetch(p) ==
    \E key \in ElementKeys :
        GetOrFetchStart(p, "getOrFetch", "", "", "", key) /\ UNCHANGED hover

(* readFromDiskCache, lines 156-160: stat; no file is null, a miss *)
DiskStat(p) ==
    /\ calls[p].pc = "stat"
    /\ IF disk[calls[p].key] = NoFile
          THEN InvokeProducer(p, "absent")
          ELSE calls' = [calls EXCEPT ![p].pc = "read"]
    /\ UNCHANGED << extraction, keyRequests, hover, summarizer, sanitizer, received, instance, created, lastCall, memoryCache, disk, cacheDirExists,
                    ensure, now, sweep >>

(* whether readFile and JSON.parse both succeed on the file *)
Parsable(file) == file.kind = "file" /\ file.content.json

(* a disk hit that leaves the memory tier as it is *)
PromoteNothing(key, diskItem) == memoryCache

(* a promotion that gives the entry a new lifetime from the time of the hit *)
PromoteRestamped(key, diskItem) ==
    [memoryCache EXCEPT ![key] = [diskItem EXCEPT !.timestamp = now,
                                                  !.expiresAt = now + maxCacheAge]]

(* line 83: a valid persistent item is copied into the memory tier *)
Promote(key, diskItem) == [memoryCache EXCEPT ![key] = diskItem]

(* why a record that exists gives no hit: readFile threw, JSON.parse threw, *)
(* or the parsed item failed the validity check                            *)
ReadFailure(file) ==
    CASE file.kind = "none"       -> "absent"
      [] file.kind = "unreadable" -> "unreadable"
      [] ~file.content.json       -> "unparsable"
      [] OTHER                    -> "invalid"

(* lines 162-163 and 80-88: readFile, JSON.parse, the validity check; an   *)
(* exception of either is caught at line 86 and the call goes on to fetch  *)
DiskRead(p) ==
    /\ calls[p].pc = "read"
    /\ LET key  == calls[p].key
           file == disk[key]
       IN  IF Parsable(file) /\ IsValid(JSONParse(file.content), now)
              THEN /\ memoryCache' = Promote(key, JSONParse(file.content))
                   /\ calls' = [calls EXCEPT
                                  ![p] = Returned([@ EXCEPT !.found = "valid"],
                                                  JSONParse(file.content).data, "disk")]
              ELSE /\ InvokeProducer(p, ReadFailure(file))
                   /\ UNCHANGED memoryCache
    /\ UNCHANGED << extraction, keyRequests, hover, summarizer, sanitizer, received, instance, created, lastCall, disk, cacheDirExists, ensure, now,
                    sweep >>

(* what a producer handed to getOrFetch directly can resolve to *)
DirectResults == { Str("P") }

(* a store that patches the data of the entry the memory tier holds *)
StorePatchingEntry(p, data) ==
    LET item == CacheItem(data, now)
        held == memoryCache[calls[p].key]
    IN  /\ memoryCache' = [memoryCache EXCEPT ![calls[p].key] =
                               IF held = NoItem THEN item ELSE [held EXCEPT !.data = data]]
        /\ calls' = [calls EXCEPT ![p].pc = "write", ![p].item = item, ![p].data = data]

(* a store that leaves the tiers alone when the producer gave undefined *)
StoreOnlyContent(p, data) ==
    LET item == CacheItem(data, now)
    IN  /\ memoryCache' = IF data.defined
                             THEN [memoryCache EXCEPT ![calls[p].key] = item]
                             ELSE memoryCache
        /\ calls' = [calls EXCEPT ![p].pc = "write", ![p].item = item, ![p].data = data]

(* lines 94-103: the new item goes into the memory tier, then the write of *)
(* the persistent record is awaited                                        *)
Store(p, data) ==
    LET item == CacheItem(data, now)
    IN  /\ memoryCache' = [memoryCache EXCEPT ![calls[p].key] = item]
        /\ calls' = [calls EXCEPT ![p].pc = "write", ![p].item = item, ![p].data = data]

(* a rejection that is remembered: an entry without data is stored for    *)
(* the key before the error leaves getOrFetch                              *)
ProducerRejectsCachingFailure(p) ==
    /\ memoryCache' = [memoryCache EXCEPT ![calls[p].key] = CacheItem(Undefined, now)]
    /\ calls' = [calls EXCEPT ![p] = Thrown(@)]

(* line 92: the rejection of fetchFn() leaves getOrFetch through the       *)
(* await; lines 94-103 are not reached                                     *)
ProducerRejects(p) ==
    /\ calls' = [calls EXCEPT ![p] = Thrown(@)]
    /\ UNCHANGED memoryCache

(* line 92 resumes: the producer resolved or rejected *)
ProducerSettles(p) ==
    /\ calls[p].pc = "fetch"
    /\ \/ /\ calls[p].entry # "getOrFetch"
          /\ \E response \in Responses :
                /\ Store(p, Fetch(response))
                /\ received' = [received EXCEPT ![p] = response.kind]
       \/ /\ calls[p].entry = "getOrFetch"
          /\ \E data \in DirectResults : Store(p, data)
          /\ UNCHANGED received
       \/ /\ calls[p].entry = "getOrFetch"
          /\ ProducerRejects(p)
          /\ UNCHANGED received
    /\ UNCHANGED << extraction, keyRequests, hover, summarizer, sanitizer, instance, created, lastCall, disk, cacheDirExists, ensure,
                    now, sweep >>

(* a write that stamps the record anew when it is written *)
WriteToDiskCacheRestamping(p) ==
    /\ calls[p].pc = "write"
    /\ \E writeOk \in BOOLEAN :
          IF writeOk /\ cacheDirExists
             THEN /\ disk' = [disk EXCEPT ![calls[p].key] =
                                  File(JSONStringify(CacheItem(calls[p].data, now)))]
                  /\ calls' = [calls EXCEPT ![p] = Returned(@, calls[p].data, "producer")]
             ELSE /\ calls' = [calls EXCEPT ![p] = Thrown(@)]
                  /\ UNCHANGED disk
    /\ UNCHANGED << extraction, keyRequests, hover, summarizer, sanitizer, received, instance,
                    created, lastCall, memoryCache, cacheDirExists, ensure, now, sweep >>

(* lines 103-105 and 171-175: writeFile resolves, or rejects and the       *)
(* rejection leaves getOrFetch through the await at line 103               *)
WriteToDiskCache(p) ==
    /\ calls[p].pc = "write"
    /\ \E writeOk \in BOOLEAN :
          IF writeOk /\ cacheDirExists
             THEN /\ disk' = [disk EXCEPT ![calls[p].key] = File(JSONStringify(calls[p].item))]
                  /\ calls' = [calls EXCEPT ![p] = Returned(@, calls[p].data, "producer")]
             ELSE /\ calls' = [calls EXCEPT ![p] = Thrown(@)]
                  /\ UNCHANGED disk
    /\ UNCHANGED << extraction, keyRequests, hover, summarizer, sanitizer, received, instance, created, lastCall, memoryCache, cacheDirExists, ensure,
                    now, sweep >>

(***************************************************************************)
(* cleanCache.                                                             *)
(***************************************************************************)
(* lines 113-125: the sweep of the memory tier, then readDirectory is awaited *)
CleanStart ==
    /\ instance # 0
    /\ sweep.pc = "idle"
    /\ memoryCache' = [k \in Keys |->
                          IF memoryCache[k] # NoItem /\ IsExpired(memoryCache[k], now)
                             THEN NoItem ELSE memoryCache[k]]
    /\ sweep' = [SweepIdle EXCEPT !.pc = "readDirectory", !.now = now]
    /\ UNCHANGED << extraction, keyRequests, hover, summarizer, sanitizer, received, instance, created, lastCall, disk, cacheDirExists, ensure, now,
                    calls >>

(* the loop goes to the next directory entry, or ends *)
NextEntry(sw, entries) ==
    IF entries = {} THEN SweepIdle
    ELSE [sw EXCEPT !.pc = "readFile", !.entries = entries, !.file = ""]

(* line 125: the listing, or its exception caught at line 143 *)
CleanReadDirectory ==
    /\ sweep.pc = "readDirectory"
    /\ sweep' = IF cacheDirExists
                   THEN NextEntry(sweep, { k \in Keys : disk[k] # NoFile })
                   ELSE SweepIdle
    /\ UNCHANGED << extraction, keyRequests, hover, summarizer, sanitizer, received, instance, created, lastCall, memoryCache, disk, cacheDirExists,
                    ensure, now, calls >>

(* a sweep whose read or parse exception ends the whole loop *)
AbortSweep(sw, rest) == SweepIdle

(* lines 138-140: the exception of one entry is logged, the loop goes on *)
AfterReadError(sw, rest) == NextEntry(sw, rest)

(* lines 130-134: one entry is read and parsed; an exception is caught at  *)
(* line 138 and the loop goes on                                           *)
CleanReadFile ==
    /\ sweep.pc = "readFile"
    /\ \E k \in sweep.entries :
          LET file == disk[k]
              rest == sweep.entries \ {k}
          IN  sweep' = IF ~Parsable(file)
                          THEN AfterReadError(sweep, rest)
                          ELSE IF IsExpired(JSONParse(file.content), sweep.now)
                          THEN [sweep EXCEPT !.pc = "delete", !.entries = rest, !.file = k]
                          ELSE NextEntry(sweep, rest)
    /\ UNCHANGED << extraction, keyRequests, hover, summarizer, sanitizer, received, instance, created, lastCall, memoryCache, disk, cacheDirExists,
                    ensure, now, calls >>

(* line 135: the file is deleted *)
CleanDelete ==
    /\ sweep.pc = "delete"
    /\ disk' = [disk EXCEPT ![sweep.file] = NoFile]
    /\ sweep' = NextEntry(sweep, sweep.entries)
    /\ UNCHANGED << extraction, keyRequests, hover, summarizer, sanitizer, received, instance, created, lastCall, memoryCache, cacheDirExists, ensure,
                    now, calls >>

(***************************************************************************)
(* cleanDocumentation (mdn.ts) with forEachTag, walkRecursive and          *)
(* removeNode (NodeManipulator), one loop iteration a step.                *)
(***************************************************************************)
cacheVars == << instance, created, lastCall, memoryCache, disk, cacheDirExists, ensure,
                now, calls, sweep, received, keyRequests, extraction >>

(* cleanDocumentation(document) is entered with a content region; line 406 *)
(* takes the list of its anchors                                           *)
CleanDocumentation ==
    /\ sanitizer.pc = "idle"
    /\ \E region \in ContentRegions :
          sanitizer' = [ SanitizerIdle EXCEPT
                           !.pc = "forEachTag",
                           !.original = region.parentNode,
                           !.parentNode = region.parentNode,
                           !.nodeName = [n \in NodeIds |-> region.node[n].nodeName],
                           !.originalHref = [n \in NodeIds |-> region.node[n].href],
                           !.href = [n \in NodeIds |-> region.node[n].href] ]
    /\ UNCHANGED << cacheVars, summarizer, hover >>

(* lines 406-409: what the visitor makes of the href of an anchor *)
RewriteAnchor(href) == PrefixedHref(href)

(* one iteration of the loop of forEachTag *)
ForEachTag ==
    /\ sanitizer.pc = "forEachTag"
    /\ LET elements == GetElementsByTagName(sanitizer.parentNode, sanitizer.nodeName, "a")
       IN  /\ sanitizer.i < Len(elements)
           /\ sanitizer' = [ sanitizer EXCEPT
                               !.href[elements[sanitizer.i + 1]] = RewriteAnchor(@),
                               !.i = @ + 1 ]
    /\ UNCHANGED << cacheVars, summarizer, hover >>

(* the loop of forEachTag ends; walkRecursive starts, line 110 *)
WalkRecursive ==
    /\ sanitizer.pc = "forEachTag"
    /\ sanitizer.i >= Len(GetElementsByTagName(sanitizer.parentNode, sanitizer.nodeName, "a"))
    /\ LET nodesToCheck == ChildNodes(sanitizer.parentNode, Root)
       IN  sanitizer' = [ sanitizer EXCEPT
                            !.pc = IF nodesToCheck = << >> THEN "serialize" ELSE "walkRecursive",
                            !.nodesToCheck = nodesToCheck,
                            !.newNodesToCheck = << >>,
                            !.i = Len(nodesToCheck) ]
    /\ UNCHANGED << cacheVars, summarizer, hover >>

(* a removal that puts the children of the node in its place *)
RemoveNodePromotingChildren(parentNode, node) ==
    [n \in NodeIds |-> IF n = node THEN Detached
                       ELSE IF parentNode[n] = node THEN parentNode[node]
                       ELSE parentNode[n]]

(* removeNode, lines 100-102: the node leaves its parent with its subtree *)
RemoveNode(parentNode, node) == [parentNode EXCEPT ![node] = Detached]

(* lines 113-121 with the visitor of lines 414-422: one iteration of the   *)
(* for loop, from the last node of the level to the first                  *)
WalkVisit ==
    /\ sanitizer.pc = "walkRecursive"
    /\ sanitizer.i >= 1
    /\ LET node == sanitizer.nodesToCheck[sanitizer.i]
           tagName == sanitizer.nodeName[node]
           removed == IF IsElement(tagName) /\ tagName \notin allowedTags
                         THEN RemoveNode(sanitizer.parentNode, node)
                         ELSE sanitizer.parentNode
       IN  sanitizer' = [ sanitizer EXCEPT
                            !.visited = Append(@, node),
                            !.parentNode = removed,
                            !.newNodesToCheck =
                                IF IsElement(tagName)
                                   THEN @ \o ChildNodes(removed, node)
                                   ELSE @,
                            !.i = @ - 1 ]
    /\ UNCHANGED << cacheVars, summarizer, hover >>

(* lines 111 and 123: the level is done, the next one is the nodes         *)
(* collected; the while loop ends when there are none                      *)
WalkNextLevel ==
    /\ sanitizer.pc = "walkRecursive"
    /\ sanitizer.i = 0
    /\ sanitizer' = [ sanitizer EXCEPT
                        !.pc = IF sanitizer.newNodesToCheck = << >>
                                  THEN "serialize" ELSE "walkRecursive",
                        !.nodesToCheck = sanitizer.newNodesToCheck,
                        !.newNodesToCheck = << >>,
                        !.i = Len(sanitizer.newNodesToCheck) ]
    /\ UNCHANGED << cacheVars, summarizer, hover >>

(* lines 425-427: the region is serialized and returned *)
Serialize ==
    /\ sanitizer.pc = "serialize"
    /\ sanitizer' = [ sanitizer EXCEPT
                        !.pc = "done",
                        !.result = SerializeToString(sanitizer.parentNode,
                                                     sanitizer.nodeName, sanitizer.href) ]
    /\ UNCHANGED << cacheVars, summarizer, hover >>

(***************************************************************************)
(* Specifications.                                                         *)
(***************************************************************************)
Next ==
    \/ instance = 0 /\ Initialize
    \/ EnsureCacheDirExists
    \/ Dispose
    \/ Tick
    \/ \E p \in Procs : FetchHtmlElement(p)
    \/ \E p \in Procs : GetOrFetch(p)
    \/ \E p \in Procs : DiskStat(p)
    \/ \E p \in Procs : DiskRead(p)
    \/ \E p \in Procs : ProducerSettles(p)
    \/ \E p \in Procs : WriteToDiskCache(p)
    \/ CleanStart
    \/ CleanReadDirectory
    \/ CleanReadFile
    \/ CleanDelete

Spec == Init /\ [][Next]_vars

(* Spec: the extension is activated once (the singleton protocol is        *)
(* SingletonSpec's); calls, the sweep, disposal and the clock then         *)
(* interleave at every await                                               *)

(* no getOrFetch and no cleanCache is in flight *)
Quiescent ==
    /\ \A p \in Procs : calls[p].pc \in {"idle", "done"}
    /\ sweep.pc = "idle"

(* a sequential run on a live service: an operation is issued only when    *)
(* the one before it has completed; the clock and the storage behave as in *)
(* Spec                                                                    *)
SeqNext ==
    \/ instance = 0 /\ Initialize
    \/ EnsureCacheDirExists
    \/ Tick
    \/ Quiescent /\ \E p \in Procs : FetchHtmlElement(p)
    \/ Quiescent /\ \E p \in Procs : GetOrFetch(p)
    \/ \E p \in Procs : DiskStat(p)
    \/ \E p \in Procs : DiskRead(p)
    \/ \E p \in Procs : ProducerSettles(p)
    \/ \E p \in Procs : WriteToDiskCache(p)
    \/ Quiescent /\ CleanStart
    \/ CleanReadDirectory
    \/ CleanReadFile
    \/ CleanDelete

SeqSpec == Init /\ [][SeqNext]_vars

(* calls that interleave at every await while the clock runs, with no      *)
(* disposal and no sweep                                                   *)
RaceNext ==
    \/ instance = 0 /\ Initialize
    \/ EnsureCacheDirExists
    \/ Tick
    \/ \E p \in Procs : FetchHtmlElement(p)
    \/ \E p \in Procs : GetOrFetch(p)
    \/ \E p \in Procs : DiskStat(p)
    \/ \E p \in Procs : DiskRead(p)
    \/ \E p \in Procs : ProducerSettles(p)
    \/ \E p \in Procs : WriteToDiskCache(p)

RaceSpec == Init /\ [][RaceNext]_vars

(* the singleton protocol at activation and registration, with the calls   *)
(* that fill the memory tier                                               *)
SingletonNext ==
    \/ Initialize
    \/ GetInstance
    \/ EnsureCacheDirExists
    \/ \E p \in Procs : FetchHtmlElement(p)
    \/ \E p \in Procs : GetOrFetch(p)
    \/ \E p \in Procs : DiskStat(p)
    \/ \E p \in Procs : DiskRead(p)
    \/ \E p \in Procs : ProducerSettles(p)
    \/ \E p \in Procs : WriteToDiskCache(p)

SingletonSpec == Init /\ [][SingletonNext]_vars


(* the three fetch entry points, called one after the other on a live      *)
(* service                                                                 *)
FetchNext ==
    \/ instance = 0 /\ Initialize
    \/ EnsureCacheDirExists
    \/ Quiescent /\ \E p \in Procs : FetchHtmlElement(p)
    \/ Quiescent /\ \E p \in Procs : FetchGlobalAttribute(p)
    \/ Quiescent /\ \E p \in Procs : FetchElementAttribute(p)
    \/ \E p \in Procs : DiskStat(p)
    \/ \E p \in Procs : DiskRead(p)
    \/ \E p \in Procs : ProducerSettles(p)
    \/ \E p \in Procs : WriteToDiskCache(p)

FetchSpec == Init /\ [][FetchNext]_vars

(***************************************************************************)
(* hover/base.ts and the three providers: provideHover, handles and        *)
(* createHoverContent around the fetch entry points.                       *)
(***************************************************************************)
Providers ==
    { "JsxIntrinsicElementHoverProvider", "JsxGlobalAttributeHoverProvider",
      "JsxElementAttributeHoverProvider" }

(* document.getText(wordRange): "" stands for no word range, or no word *)
Words == {""} \cup Elements \cup Attributes

(* what typescriptServer.quickInfo says the word is; "none" is no quick    *)
(* info, or display parts no provider looks for                            *)
QuickInfos(word) ==
    IF word \in Elements THEN {"none", "IntrinsicElements"}
    ELSE {"none", "HTMLAttributes", "ElementHTMLAttributes"}

(* handles(model) of each provider, on the display parts of the quick info *)
HandlesModel(provider, quickInfo) ==
    CASE provider = "JsxIntrinsicElementHoverProvider" -> quickInfo = "IntrinsicElements"
      [] provider = "JsxGlobalAttributeHoverProvider"  -> quickInfo = "HTMLAttributes"
      [] OTHER                                         -> quickInfo = "ElementHTMLAttributes"

(* global.ts lines 31-34 *)
GlobalAttributeWord(word) == IF word = "className" THEN "class" ELSE word

(* base.ts lines 50-67: the word under the cursor is read, the Model is    *)
(* built with the token, and handles() awaits the quick info.  The token   *)
(* is stored in the Model and not looked at.                               *)
ProvideHover(p) ==
    /\ hover[p].pc = "idle"
    /\ \A q \in Procs : q < p => hover[q].pc = "done"
    /\ \E provider \in Providers, word \in Words, cancelled \in BOOLEAN :
          hover' = [hover EXCEPT ![p] =
                      [ HoverIdle EXCEPT
                          !.provider = provider,
                          !.word = word,
                          !.cancelledAtEntry = cancelled,
                          !.isCancellationRequested = cancelled,
                          !.pc = IF word = "" THEN "done" ELSE "handles",
                          !.result = IF word = "" THEN "undefined" ELSE "" ]]
    /\ UNCHANGED cacheVars
    /\ UNCHANGED << sanitizer, summarizer >>

(* the host cancels the request while it is in progress *)
Cancel(p) ==
    /\ hover[p].pc \in {"handles", "createHoverContent"}
    /\ ~hover[p].isCancellationRequested
    /\ hover' = [hover EXCEPT ![p].isCancellationRequested = TRUE]
    /\ UNCHANGED cacheVars
    /\ UNCHANGED << sanitizer, summarizer >>

(* base.ts lines 67-71: the quick info arrives; a provider that handles    *)
(* the model calls its fetch entry point from createHoverContent, which    *)
(* runs up to the first await of getOrFetch                                *)
Handles(p) ==
    /\ hover[p].pc = "handles"
    /\ \E quickInfo \in QuickInfos(hover[p].word), tagName \in OwningElements,
          language \in Languages :
          LET provider == hover[p].provider
              word == hover[p].word
          IN  IF ~HandlesModel(provider, quickInfo)
                 THEN /\ hover' = [hover EXCEPT ![p].pc = "done", ![p].result = "undefined"]
                      /\ UNCHANGED cacheVars
                 ELSE /\ hover' = [hover EXCEPT
                                     ![p].pc = "createHoverContent",
                                     ![p].tagName =
                                         IF provider = "JsxElementAttributeHoverProvider"
                                            THEN tagName ELSE ""]
                      /\ CASE provider = "JsxIntrinsicElementHoverProvider" ->
                                 GetOrFetchStart(p, "fetchHtmlElement", word, "", language,
                                                 CacheKeyElement(word, language))
                           [] provider = "JsxGlobalAttributeHoverProvider" ->
                                 GetOrFetchStart(p, "fetchGlobalAttribute", "",
                                                 GlobalAttributeWord(word), language,
                                                 CacheKeyGlobalAttribute(GlobalAttributeWord(word),
                                                                         language))
                           [] OTHER ->
                                 GetOrFetchStart(p, "fetchElementAttribute", tagName, word,
                                                 language,
                                                 CacheKeyElementAttribute(word, language))
    /\ UNCHANGED << sanitizer, summarizer >>

(* createHoverContent resumes with what the fetch entry point gave *)
HoverCompletes(p) ==
    /\ hover[p].pc = "createHoverContent"
    /\ calls[p].pc = "done"
    /\ hover' = [hover EXCEPT
                   ![p].pc = "done",
                   ![p].result = CASE calls[p].outcome.kind = "RichDoc" -> "Hover"
                                   [] calls[p].outcome.kind = "Absent"  -> "undefined"
                                   [] OTHER                             -> "raised"]
    /\ UNCHANGED cacheVars
    /\ UNCHANGED << sanitizer, summarizer >>

(* hover requests on an activated extension, one after the other *)
HoverNext ==
    \/ instance = 0 /\ Initialize
    \/ EnsureCacheDirExists
    \/ \E p \in Procs : ProvideHover(p)
    \/ \E p \in Procs : Cancel(p)
    \/ \E p \in Procs : Handles(p)
    \/ \E p \in Procs : DiskStat(p)
    \/ \E p \in Procs : DiskRead(p)
    \/ \E p \in Procs : ProducerSettles(p)
    \/ \E p \in Procs : WriteToDiskCache(p)
    \/ \E p \in Procs : HoverCompletes(p)

HoverSpec == Init /\ [][HoverNext]_vars

(* the sanitizer alone, on every content region of the bounded size *)
SanitizeNext ==
    \/ CleanDocumentation
    \/ ForEachTag
    \/ WalkRecursive
    \/ WalkVisit
    \/ WalkNextLevel
    \/ Serialize

SanitizeInit ==
    /\ instance = 0
    /\ created = 0
    /\ lastCall = [op |-> "none", result |-> 0, again |-> FALSE]
    /\ memoryCache = [k \in Keys |-> NoItem]
    /\ cacheDirExists = TRUE
    /\ disk = [k \in Keys |-> NoFile]
    /\ ensure = "idle"
    /\ now = StartTime
    /\ calls = [p \in Procs |-> Idle]
    /\ sweep = SweepIdle
    /\ sanitizer = SanitizerIdle
    /\ summarizer = SummarizerIdle
    /\ hover = [p \in Procs |-> HoverIdle]
    /\ keyRequests = << >>
    /\ extraction = ExtractionIdle
    /\ received = [p \in Procs |-> ""]

SanitizeSpec == SanitizeInit /\ [][SanitizeNext]_vars


(***************************************************************************)
(* browser.ts: parseCompat, one step per entry of the support block.       *)
(***************************************************************************)
(* parseCompat(element, compat) is entered: Object.entries(compat.support) *)
ParseCompatCall(entries) ==
    /\ summarizer.pc = "idle"
    /\ summarizer' = [ SummarizerIdle EXCEPT !.pc = "map", !.entries = entries ]
    /\ UNCHANGED << cacheVars, sanitizer, hover >>

(* .map(([browser, support]) => this.parseSupportStatement(...)): the next *)
(* entry; an entry without a version maps to undefined (no element here)   *)
MapSupportStatement ==
    /\ summarizer.pc = "map"
    /\ summarizer.i < Len(summarizer.entries)
    /\ LET entry == summarizer.entries[summarizer.i + 1]
       IN  summarizer' = [ summarizer EXCEPT
                             !.i = @ + 1,
                             !.mapped = Append(@, ParseSupportStatement(entry.browser,
                                                                        entry.support)) ]
    /\ UNCHANGED << cacheVars, sanitizer, hover >>

RECURSIVE Flatten(_)
Flatten(mapped) ==
    IF mapped = << >> THEN << >> ELSE Head(mapped) \o Flatten(Tail(mapped))

(* .filter(Boolean): the undefined results are dropped, the order is kept *)
FilterBoolean ==
    /\ summarizer.pc = "map"
    /\ summarizer.i >= Len(summarizer.entries)
    /\ summarizer' = [ summarizer EXCEPT !.pc = "done", !.result = Flatten(summarizer.mapped) ]
    /\ UNCHANGED << cacheVars, sanitizer, hover >>

(* the summarizer alone, on every support block of the bounded size *)
SummarizeNext ==
    \/ \E entries \in SupportBlocks : ParseCompatCall(entries)
    \/ MapSupportStatement
    \/ FilterBoolean

(* an empty cache, no call in flight, the summarizer not yet entered *)
SummarizeInit ==
    /\ instance = 0
    /\ created = 0
    /\ lastCall = [op |-> "none", result |-> 0, again |-> FALSE]
    /\ memoryCache = [k \in Keys |-> NoItem]
    /\ cacheDirExists = TRUE
    /\ disk = [k \in Keys |-> NoFile]
    /\ ensure = "idle"
    /\ now = StartTime
    /\ calls = [p \in Procs |-> Idle]
    /\ sweep = SweepIdle
    /\ sanitizer = SanitizerIdle
    /\ received = [p \in Procs |-> ""]
    /\ summarizer = SummarizerIdle
    /\ hover = [p \in Procs |-> HoverIdle]
    /\ keyRequests = << >>
    /\ extraction = ExtractionIdle

SummarizeSpec == SummarizeInit /\ [][SummarizeNext]_vars


(***************************************************************************)
(* mdn.ts: the cache key each fetch entry point derives for its request.   *)
(***************************************************************************)
MaxRequests == 2

(* the names a hover hands to the entry points: the word under the cursor, *)
(* which holds no "-"; some are the name of an element and of an attribute *)
RequestNames == {"title", "a", "attribute", "en"}

(* values of the setting mdn-docs.language *)
RequestLanguages == {"en-US", "de", "pt-BR"}

otherVars == << instance, created, lastCall, memoryCache, disk, cacheDirExists, ensure,
                now, calls, sweep, received, sanitizer, summarizer, hover >>

(* line 223 *)
DeriveKeyElement ==
    /\ Len(keyRequests) < MaxRequests
    /\ \E name \in RequestNames, language \in RequestLanguages :
          keyRequests' = Append(keyRequests,
                                [ kind |-> "Element", name |-> name, language |-> language,
                                  key |-> CacheKeyElement(name, language) ])
    /\ UNCHANGED << otherVars, extraction >>

(* line 255 *)
DeriveKeyGlobalAttribute ==
    /\ Len(keyRequests) < MaxRequests
    /\ \E name \in RequestNames, language \in RequestLanguages :
          keyRequests' = Append(keyRequests,
                                [ kind |-> "GlobalAttribute", name |-> name,
                                  language |-> language,
                                  key |-> CacheKeyGlobalAttribute(name, language) ])
    /\ UNCHANGED << otherVars, extraction >>

(* line 287 *)
DeriveKeyElementAttribute ==
    /\ Len(keyRequests) < MaxRequests
    /\ \E name \in RequestNames, language \in RequestLanguages :
          keyRequests' = Append(keyRequests,
                                [ kind |-> "ElementAttribute", name |-> name,
                                  language |-> language,
                                  key |-> CacheKeyElementAttribute(name, language) ])
    /\ UNCHANGED << otherVars, extraction >>

KeyNext ==
    \/ DeriveKeyElement
    \/ DeriveKeyGlobalAttribute
    \/ DeriveKeyElementAttribute

KeySpec == SummarizeInit /\ [][KeyNext]_vars


(***************************************************************************)
(* mdn.ts extractDocumentation with getFirstElementByClassAndTag           *)
(* (NodeManipulator): the choice of the content region.                    *)
(***************************************************************************)
MaxElements == 3

(* the elements of a parsed page in document order, each with its tag name *)
(* and the tokens of its class attribute                                   *)
TagNames == {"div", "DIV", "section", "article"}

ClassLists == { {}, {"section-content"}, {"section-content", "main-page-content"} }

PageElements == [ tagName : TagNames, classList : ClassLists ]

Documents == UNION { [1..n -> PageElements] : n \in 0..MaxElements }

(* String.prototype.toLowerCase on a tag name *)
ToLowerCase(tagName) == IF tagName = "DIV" THEN "div" ELSE tagName

(* document.getElementsByClassName(className): the positions of the        *)
(* elements that have the class, in document order                         *)
GetElementsByClassName(document, className) ==
    { i \in DOMAIN document : className \in document[i].classList }

(* the first element that has the class, whatever its tag *)
GetFirstElementByClass(document, className, tagName) ==
    LET elements == GetElementsByClassName(document, className)
    IN  IF elements = {} THEN 0
        ELSE CHOOSE i \in elements : \A j \in elements : i <= j

(* elements.find(element => element.tagName.toLowerCase() ===              *)
(* tagName.toLowerCase()); 0 is undefined                                  *)
GetFirstElementByClassAndTag(document, className, tagName) ==
    LET elements == { i \in GetElementsByClassName(document, className) :
                        ToLowerCase(document[i].tagName) = ToLowerCase(tagName) }
    IN  IF elements = {} THEN 0
        ELSE CHOOSE i \in elements : \A j \in elements : i <= j

(* line 386: the page is parsed *)
ParseFromString ==
    /\ extraction.pc = "idle"
    /\ \E document \in Documents :
          extraction' = [ ExtractionIdle EXCEPT !.pc = "parsed", !.document = document ]
    /\ UNCHANGED << otherVars, keyRequests >>

(* lines 387-394: the content region is looked up; without one the result  *)
(* is undefined                                                            *)
SelectSectionContent ==
    /\ extraction.pc = "parsed"
    /\ LET sectionContent ==
              GetFirstElementByClassAndTag(extraction.document, "section-content", "div")
       IN  extraction' = [ extraction EXCEPT
                             !.pc = IF sectionContent # 0 THEN "cleanDocumentation"
                                                          ELSE "undefined",
                             !.sectionContent = sectionContent ]
    /\ UNCHANGED << otherVars, keyRequests >>

ExtractNext ==
    \/ ParseFromString
    \/ SelectSectionContent

ExtractSpec == SummarizeInit /\ [][ExtractNext]_vars


(***************************************************************************)
(* Properties.                                                             *)
(***************************************************************************)
(* producer invocations so far for key k *)
FetchCount(k) == Cardinality({ p \in Procs : calls[p].key = k /\ calls[p].invoked > 0 })

(* call p is issued in this step *)
Issued(p) == calls[p].pc = "idle" /\ calls'[p].pc # "idle"

(* call a is complete, its producer ran and its item was stored for the    *)
(* key, and no call issued after a has touched the key                     *)
StoredBy(a, k) ==
    /\ calls[a].pc = "done"
    /\ calls[a].key = k
    /\ calls[a].invoked = 1
    /\ calls[a].item # NoItem
    /\ \A c \in Procs : c > a => calls[c].key # k

(* C1, the getOrFetch part: a call invokes its producer at most once, and  *)
(* exactly once when it found no valid entry in either tier; a call issued *)
(* while the item stored by the call before it on the key is unexpired     *)
(* completes at once, invokes no producer and returns the stored data.     *)
C1_Idempotent ==
    /\ [](\A p \in Procs :
            /\ calls[p].invoked <= 1
            /\ calls[p].pc \in {"fetch", "write"} => calls[p].invoked = 1
            /\ (calls[p].pc = "done" /\ calls[p].served \in {"memory", "disk"})
                  => calls[p].invoked = 0
            /\ (calls[p].pc = "done" /\ calls[p].served \notin {"memory", "disk"})
                  => calls[p].invoked = 1)
    /\ [][\A a, b \in Procs :
            (a < b /\ Issued(b) /\ StoredBy(a, calls'[b].key)
               /\ now < calls[a].item.expiresAt)
            => /\ calls'[b].pc = "done"
               /\ calls'[b].status = "returned"
               /\ calls'[b].invoked = 0
               /\ calls'[b].data = calls[a].item.data]_vars

(* C1: idempotent caching in a sequential run: a later call on the key,    *)
(* issued before the stored entry expires, invokes no producer and returns *)
(* the stored value; and of two successive fetchHtmlElement calls for the  *)
(* same element and language within the TTL the second causes no network   *)
(* fetch and gives the same result as the first.                           *)
C1_SuccessiveCallsAgree ==
    [][\A a, b \in Procs :
          (a < b /\ Issued(b) /\ StoredBy(a, calls'[b].key)
             /\ now < calls[a].item.expiresAt)
          => /\ calls'[b].pc = "done"
             /\ calls'[b].invoked = 0
             /\ calls'[b].data = calls[a].item.data
             /\ (calls[a].entry = "fetchHtmlElement" /\ calls'[b].entry = "fetchHtmlElement")
                   => calls'[b].outcome = calls[a].outcome]_vars


(* the validity of an item at a clock reading, written out *)
Unexpired(item, clock) == clock < item.expiresAt
CurrentVersion(item) == item.version = "1.0.1"

(* the file holds a record that can be read and parsed *)
HoldsRecord(file) == file.kind = "file" /\ file.content.json

(* call p finishes its read of the persistent record in this step *)
ReadDone(p) == calls[p].pc = "read" /\ calls'[p].pc # "read"

(* C2: getOrFetch returns the data of a stored entry, of either tier, only *)
(* if at the check now < expiresAt and the version is the current one; an  *)
(* entry failing either test counts as absent: a memory entry sends the    *)
(* call to the persistent tier, a persistent record sends it to the        *)
(* producer.                                                               *)
C2_EntryValidity ==
    [][\A p \in Procs :
          /\ Issued(p) =>
                LET m == memoryCache[calls'[p].key]
                IN  IF m # NoItem /\ Unexpired(m, now) /\ CurrentVersion(m)
                       THEN /\ calls'[p].served = "memory"
                            /\ calls'[p].data = m.data
                       ELSE /\ calls'[p].pc = "stat"
                            /\ calls'[p].served = ""
          /\ ReadDone(p) =>
                LET f == disk[calls[p].key]
                IN  IF /\ HoldsRecord(f)
                       /\ Unexpired(f.content, now)
                       /\ CurrentVersion(f.content)
                       THEN /\ calls'[p].served = "disk"
                            /\ calls'[p].data = JSONParse(f.content).data
                       ELSE /\ calls'[p].pc = "fetch"
                            /\ calls'[p].invoked = 1
                            /\ calls'[p].served = ""]_vars

(* a record stamped 1.0.0 whose expiresAt is in the future was read as a   *)
(* miss: the call is at its producer                                       *)
C2_Witness ==
    \E p \in Procs :
        /\ calls[p].pc = "fetch"
        /\ calls[p].found = "invalid"
        /\ HoldsRecord(disk[calls[p].key])
        /\ disk[calls[p].key].content.version = "1.0.0"
        /\ Unexpired(disk[calls[p].key].content, now)

(* C3: the memory tier is consulted first and the persistent tier is read  *)
(* only when the memory tier holds no valid entry; a valid persistent      *)
(* entry is copied into the memory tier and its data returned with no      *)
(* producer call, so that the memory tier then holds a valid entry and a   *)
(* next call is served from it with no persistent read.                    *)
C3_TierOrderAndPromotion ==
    /\ [](\A p \in Procs :
            /\ calls[p].served = "memory" => (~calls[p].diskRead /\ calls[p].invoked = 0)
            /\ calls[p].served = "disk" => (calls[p].diskRead /\ calls[p].invoked = 0))
    /\ [][\A p \in Procs :
            /\ Issued(p) =>
                  LET m == memoryCache[calls'[p].key]
                  IN  (m # NoItem /\ Unexpired(m, now) /\ CurrentVersion(m))
                         <=> (calls'[p].served = "memory" /\ ~calls'[p].diskRead)
            /\ (ReadDone(p) /\ calls'[p].served = "disk") =>
                  LET k == calls[p].key
                  IN  /\ memoryCache'[k] = JSONParse(disk[k].content)
                      /\ Unexpired(memoryCache'[k], now) /\ CurrentVersion(memoryCache'[k])
                      /\ calls'[p].data = memoryCache'[k].data
                      /\ calls'[p].pc = "done"]_vars

(* a call was served from the persistent tier and the next call on the key *)
(* from the memory tier                                                    *)
C3_Witness ==
    \E a, b \in Procs :
        /\ a < b
        /\ calls[a].key = calls[b].key
        /\ calls[a].served = "disk"
        /\ calls[b].served = "memory"
        /\ calls[b].data = calls[a].data

(* C4: when neither tier holds a valid entry and the producer succeeds,    *)
(* the new entry holds the produced value, the current version and         *)
(* expiresAt = creation time + 24 hours; when getOrFetch returns, both     *)
(* tiers hold that entry for the key and the value returned is the         *)
(* produced value.                                                         *)
C4_PopulateOnMiss ==
    [][\A p \in Procs :
          /\ (calls[p].pc = "fetch" /\ calls'[p].pc = "write") =>
                LET e == memoryCache'[calls[p].key]
                IN  /\ e # NoItem
                    /\ e = calls'[p].item
                    /\ e.data = calls'[p].data
                    /\ e.timestamp = now
                    /\ e.expiresAt = now + 24 * 60 * 60 * 1000
                    /\ CurrentVersion(e)
          /\ (calls[p].pc = "write" /\ calls'[p].status = "returned") =>
                LET k == calls[p].key
                IN  /\ memoryCache'[k] = calls[p].item
                    /\ HoldsRecord(disk'[k])
                    /\ JSONParse(disk'[k].content) = calls[p].item
                    /\ calls'[p].data = calls[p].item.data
                    /\ calls[p].item.expiresAt = calls[p].item.timestamp + 24 * 60 * 60 * 1000
                    /\ CurrentVersion(calls[p].item)]_vars

(* a call has returned what its producer gave and both tiers hold its item *)
C4_Witness ==
    \E p \in Procs :
        /\ calls[p].pc = "done"
        /\ calls[p].status = "returned"
        /\ calls[p].served = "producer"
        /\ memoryCache[calls[p].key] = calls[p].item
        /\ HoldsRecord(disk[calls[p].key])
        /\ JSONParse(disk[calls[p].key].content) = calls[p].item

(* C5: a failure of the write of the persistent record does not fail       *)
(* getOrFetch: a call whose producer succeeded always ends by returning    *)
(* the produced value, with the new entry in the memory tier.              *)
C5_WriteFailureTolerated ==
    [][\A p \in Procs :
          (calls[p].pc = "write" /\ calls'[p].pc = "done")
          => /\ calls'[p].status = "returned"
             /\ calls'[p].data = calls[p].item.data
             /\ memoryCache'[calls[p].key] = calls[p].item]_vars

(* C6, the miss: an absent record sends the call from stat to its          *)
(* producer; an unreadable or unparsable record sends it from the read to  *)
(* its producer; neither step rejects the call.                            *)
C6_BadRecordIsMiss ==
    [][\A p \in Procs :
          LET f == disk[calls[p].key]
          IN  /\ (calls[p].pc = "stat" /\ calls'[p].pc # "stat" /\ f.kind = "none")
                    => /\ calls'[p].pc = "fetch"
                       /\ calls'[p].invoked = 1
                       /\ calls'[p].status = "pending"
              /\ (ReadDone(p) /\ ~HoldsRecord(f))
                    => /\ calls'[p].pc = "fetch"
                       /\ calls'[p].invoked = 1
                       /\ calls'[p].status = "pending"]_vars

(* C6: a persistent record that is absent, unreadable or unparsable is a   *)
(* miss: the call does not raise, invokes the producer and returns the     *)
(* produced value.                                                         *)
C6_BadRecordReturnsProduced ==
    \A p \in Procs :
        (/\ calls[p].pc = "done"
         /\ calls[p].found \in {"absent", "unreadable", "unparsable"}
         /\ calls[p].item # NoItem)
        => /\ calls[p].invoked = 1
           /\ calls[p].status = "returned"
           /\ calls[p].data = calls[p].item.data


(* the clock reading a sweep step works with *)
SweepNow == IF sweep.pc = "idle" THEN now ELSE sweep.now

SweepStep == sweep' # sweep
SweepEnds == sweep.pc # "idle" /\ sweep'.pc = "idle"

C8_UnreadableSkipped ==
    [][/\ SweepStep =>
            \A k \in Keys : ~HoldsRecord(disk[k]) => disk'[k] = disk[k]
       /\ (SweepStep /\ sweep.pc = "readFile") =>
            /\ sweep'.pc \in {"readFile", "delete", "idle"}
            /\ sweep'.pc = "idle" => Cardinality(sweep.entries) = 1
            /\ sweep'.pc # "idle" =>
                  Cardinality(sweep'.entries) = Cardinality(sweep.entries) - 1
       /\ SweepEnds =>
            \A k \in Keys :
               HoldsRecord(disk'[k]) => disk'[k].content.expiresAt > sweep.now]_vars

(* the sweep has passed an unreadable or unparsable record, which is still *)
(* there, and is deleting an expired record it met after it                *)
C8_Witness ==
    \E k \in Keys :
        /\ sweep.pc = "delete"
        /\ disk[k].kind # "none"
        /\ ~HoldsRecord(disk[k])
        /\ k \notin sweep.entries
        /\ k # sweep.file

(* the latest initialize() or getInstance() call is made in this step *)
SingletonCall(op) == lastCall' # lastCall /\ lastCall'.op = op

(* C9: getInstance before any initialize raises; once initialized, there   *)
(* is one instance for good, getInstance returns it, and a further         *)
(* initialize returns it and leaves it and its memory tier as they are.    *)
C9_SingletonProtocol ==
    /\ [](/\ created <= 1
          /\ instance = created
          /\ lastCall.op = "initialize" => (lastCall.result = instance /\ instance # 0))
    /\ [][/\ instance # 0 => instance' = instance
          /\ SingletonCall("getInstance") =>
                /\ created = 0 <=> lastCall'.result = 0
                /\ created # 0 => lastCall'.result = instance
                /\ UNCHANGED << instance, memoryCache >>
          /\ (SingletonCall("initialize") /\ instance # 0) =>
                /\ lastCall'.result = instance
                /\ UNCHANGED << instance, created, memoryCache >>]_vars

(* initialize was called on a service whose memory tier holds an entry,    *)
(* and the entry is still there                                            *)
C9_Witness ==
    /\ lastCall.op = "initialize"
    /\ lastCall.again
    /\ \E k \in Keys : memoryCache[k] # NoItem

(* the calls on key k that found no valid entry in either tier *)
Missed(k) ==
    { p \in Procs : /\ calls[p].key = k
                    /\ \/ calls[p].pc \in {"fetch", "write"}
                       \/ calls[p].pc = "done" /\ calls[p].served \notin {"memory", "disk"} }

(* C10: there is no single-flight: every call that found no valid entry    *)
(* invokes its own producer, also while the producer of another call on    *)
(* the key is in flight, so that the producer runs once per such call.     *)
C10_NoSingleFlight ==
    \A k \in Keys : FetchCount(k) = Cardinality(Missed(k))

(* two calls on one key have both invoked their producer and neither has   *)
(* stored its result                                                       *)
C10_Witness ==
    \E a, b \in Procs :
        /\ a # b
        /\ calls[a].key = calls[b].key
        /\ calls[a].pc = "fetch" /\ calls[b].pc = "fetch"
        /\ calls[a].invoked = 1 /\ calls[b].invoked = 1
        /\ FetchCount(calls[a].key) = 2

(* call p puts its new item into the memory tier in this step *)
Stores(p) == calls[p].pc = "fetch" /\ calls'[p].pc = "write"

(* call p ends the write of its persistent record in this step *)
WriteDone(p) == calls[p].pc = "write" /\ calls'[p].pc = "done"

(* an entry with its four fields, stamped by one call *)
Complete(item) ==
    /\ DOMAIN item = {"data", "timestamp", "expiresAt", "version"}
    /\ item.expiresAt = item.timestamp + 24 * 60 * 60 * 1000
    /\ item.version = "1.0.1"

(* C11: last write wins with immutable entries: also when getOrFetch calls *)
(* on one key race, a step that changes the entry of a tier either removes *)
(* it or replaces it as a whole by the complete entry one call built (a    *)
(* promotion copies the whole persistent record); the entry a call built   *)
(* never changes afterwards, so no stored entry is modified in place.      *)
C11_LastWriteWins ==
    [][\A k \in Keys :
          /\ memoryCache'[k] # memoryCache[k] =>
                \/ memoryCache'[k] = NoItem
                \/ \E p \in Procs : /\ Stores(p) /\ calls[p].key = k
                                    /\ Complete(calls'[p].item)
                                    /\ calls'[p].item.data = calls'[p].data
                                    /\ memoryCache'[k] = calls'[p].item
                \/ \E p \in Procs : /\ ReadDone(p) /\ calls[p].key = k
                                    /\ HoldsRecord(disk[k])
                                    /\ memoryCache'[k] = JSONParse(disk[k].content)
          /\ disk'[k] # disk[k] =>
                \/ disk'[k] = NoFile
                \/ \E p \in Procs : /\ WriteDone(p) /\ calls[p].key = k
                                    /\ HoldsRecord(disk'[k])
                                    /\ JSONParse(disk'[k].content) = calls[p].item
          /\ \A p \in Procs :
                calls[p].item # NoItem => calls'[p].item = calls[p].item]_vars

(* two calls on one key raced and built different entries: the memory tier *)
(* holds the whole entry of the one that stored last, the persistent tier  *)
(* the whole entry of the one that wrote last                              *)
C11_Witness ==
    \E a, b \in Procs :
        /\ a # b
        /\ calls[a].key = calls[b].key
        /\ calls[a].served = "producer" /\ calls[b].served = "producer"
        /\ calls[a].item # calls[b].item
        /\ memoryCache[calls[a].key] = calls[b].item
        /\ HoldsRecord(disk[calls[a].key])
        /\ JSONParse(disk[calls[a].key].content) = calls[a].item

(* the memory tier changes in a step of no call and no sweep: a disposal *)
Disposal == memoryCache' # memoryCache /\ calls' = calls /\ sweep' = sweep

(* C12: dispose clears the memory tier and nothing else: the persistent    *)
(* records change only at the end of a write and in a deletion of the      *)
(* sweep.  A call issued on an empty memory tier goes to the persistent    *)
(* tier, and when the record it reads there is valid it returns the data   *)
(* of the record and invokes no producer.                                  *)
C12_DisposeKeepsRecords ==
    [][/\ Disposal => /\ \A k \in Keys : memoryCache'[k] = NoItem
                      /\ disk' = disk
                      /\ cacheDirExists' = cacheDirExists
       /\ disk' # disk => \/ \E p \in Procs : WriteDone(p)
                          \/ sweep.pc = "delete"
       /\ \A p \in Procs :
             /\ (Issued(p) /\ memoryCache[calls'[p].key] = NoItem)
                   => /\ calls'[p].pc = "stat"
                      /\ calls'[p].invoked = 0
             /\ (ReadDone(p) /\ HoldsRecord(disk[calls[p].key])
                   /\ Unexpired(disk[calls[p].key].content, now)
                   /\ CurrentVersion(disk[calls[p].key].content))
                   => /\ calls'[p].pc = "done"
                      /\ calls'[p].status = "returned"
                      /\ calls'[p].invoked = 0
                      /\ calls'[p].data = JSONParse(disk[calls[p].key].content).data]_vars

(* a call stored its item in both tiers and returned, the memory tier was  *)
(* then disposed of while the item is unexpired, and the next call on the  *)
(* key, finding the memory tier empty, is reading the record, which is as  *)
(* the first call wrote it                                                 *)
C12_Witness ==
    \E a, b \in Procs :
        /\ a < b
        /\ calls[a].key = calls[b].key
        /\ calls[a].served = "producer" /\ calls[a].status = "returned"
        /\ Unexpired(calls[a].item, now)
        /\ memoryCache[calls[a].key] = NoItem
        /\ calls[b].pc = "read" /\ calls[b].invoked = 0
        /\ HoldsRecord(disk[calls[a].key])
        /\ JSONParse(disk[calls[a].key].content) = calls[a].item

(* the nodes that are in the content region now *)
InRegion ==
    LET below == DocumentOrder(sanitizer.parentNode, ChildNodes(sanitizer.parentNode, Root))
    IN  { below[i] : i \in DOMAIN below }

(* the nodes the visitor of walkRecursive was called with *)
Visited == { sanitizer.visited[i] : i \in DOMAIN sanitizer.visited }

(* C13: after cleanDocumentation every element left in the subtree of the *)
(* content region has a tag name of the allow-list a, code, div, p, span,  *)
(* strong; no script and no style element is left at any depth, and the    *)
(* serialized output holds no script or style tag.                         *)
C13_SanitizationInvariant ==
    sanitizer.pc = "done" =>
        /\ \A n \in InRegion :
              sanitizer.nodeName[n] # "#text"
                 => sanitizer.nodeName[n] \in {"a", "code", "div", "p", "span", "strong"}
        /\ \A n \in NodeIds :
              sanitizer.nodeName[n] \in {"script", "style"} => n \notin InRegion
        /\ \A i \in DOMAIN sanitizer.result :
              sanitizer.result[i] \notin {"<script>", "</script>", "<style>", "</style>"}

(* a script element that was inside a paragraph of the region is gone from *)
(* the cleaned region, and the paragraph is still there                    *)
C13_Witness ==
    /\ sanitizer.pc = "done"
    /\ \E n \in NodeIds :
          /\ sanitizer.nodeName[n] = "script"
          /\ sanitizer.original[n] # Root
          /\ sanitizer.nodeName[sanitizer.original[n]] = "p"
          /\ sanitizer.original[n] \in InRegion
          /\ n \notin InRegion

(* C14: a disallowed element leaves its parent with its whole subtree: no  *)
(* node ever gets a parent other than its original one, and exactly the    *)
(* disallowed elements that were visited are detached.  No node is passed  *)
(* to the visitor twice, and when the walk is over every node below the    *)
(* region (each has only element ancestors) was passed to it once, the     *)
(* siblings of removed elements included.                                  *)
C14_TraversalUnderRemoval ==
    /\ \A n \in NodeIds :
          /\ sanitizer.parentNode[n] \in {sanitizer.original[n], Detached}
          /\ sanitizer.parentNode[n] = Detached
                <=> (/\ n \in Visited
                     /\ sanitizer.nodeName[n] # "#text"
                     /\ sanitizer.nodeName[n] \notin {"a", "code", "div", "p", "span", "strong"})
    /\ Cardinality(Visited) = Len(sanitizer.visited)
    /\ sanitizer.pc \in {"serialize", "done"} => Visited = NodeIds

(* the walk is over: a disallowed element with a child was removed and    *)
(* the child is still its child; the sibling before it, which the loop     *)
(* reaches after the removal, was visited and is still in the region       *)
C14_Witness ==
    /\ sanitizer.pc = "done"
    /\ \E n, c, s \in NodeIds :
          /\ sanitizer.nodeName[n] = "script"
          /\ sanitizer.parentNode[n] = Detached
          /\ sanitizer.parentNode[c] = n
          /\ s < n
          /\ sanitizer.original[s] = sanitizer.original[n]
          /\ sanitizer.nodeName[s] = "p"
          /\ s \in InRegion
          /\ {s, c} \subseteq Visited

(* an href that names its own host *)
IsAbsolute(href) ==
    /\ href.present
    /\ Len(href.value) >= 8
    /\ SubSeq(href.value, 1, 8) = "https://"

(* C15: within the content region every anchor whose href is relative is   *)
(* rewritten to the canonical host followed by the original href, and an   *)
(* anchor whose href is absolute, or that has no href, is left unchanged.  *)
C15_LinkRewriting ==
    sanitizer.pc = "done" =>
        \A n \in NodeIds :
            sanitizer.nodeName[n] = "a" =>
                IF sanitizer.originalHref[n].present /\ ~IsAbsolute(sanitizer.originalHref[n])
                   THEN sanitizer.href[n] =
                           Attribute("https://developer.mozilla.org"
                                     \o sanitizer.originalHref[n].value)
                   ELSE sanitizer.href[n] = sanitizer.originalHref[n]

(* call p is a call of one of the three fetch entry points *)
IsFetchEntry(p) ==
    calls[p].entry \in {"fetchHtmlElement", "fetchGlobalAttribute", "fetchElementAttribute"}

(* the HTTP request of call p was answered 2xx with a page that holds no   *)
(* div of class section-content                                            *)
NoContentRegion(p) ==
    /\ IsFetchEntry(p)
    /\ received[p] = "ok"
    /\ calls[p].item # NoItem
    /\ ~calls[p].item.data.defined

(* C16, the extraction: a page without the marker gives no documentation,  *)
(* and the entry point then reports Absent unless the write of the         *)
(* persistent record was rejected.                                         *)
C16_AbsentUnlessWriteFails ==
    /\ \A page \in Pages : ~page.sectionContent <=> ~ExtractDocumentation(page).defined
    /\ \A p \in Procs :
          (calls[p].pc = "done" /\ NoContentRegion(p))
          => \/ calls[p].outcome.kind = "Absent"
             \/ calls[p].status = "raised" /\ calls[p].outcome.kind = "Raised"

(* C16: when the fetched page holds no content-region marker, extraction   *)
(* finds nothing and the fetch entry point reports Absent to its caller    *)
(* without raising.                                                        *)
C16_NoContentRegion ==
    \A p \in Procs :
        (calls[p].pc = "done" /\ NoContentRegion(p))
        => calls[p].outcome.kind = "Absent"

(* C17: a network exception or a non-2xx response during the producer call *)
(* is not swallowed: the fetch entry point ends by raising, not with an    *)
(* Absent result.                                                          *)
C17_IOFailurePropagates ==
    \A p \in Procs :
        (/\ calls[p].pc = "done"
         /\ IsFetchEntry(p)
         /\ received[p] \in {"status", "exception"})
        => calls[p].outcome.kind = "Raised"

(* the dataset holds compatibility data for the entity of call p *)
HasCompatData(p) ==
    CASE calls[p].entry = "fetchHtmlElement" -> calls[p].element = "video"
      [] calls[p].entry = "fetchGlobalAttribute" -> calls[p].attribute = "title"
      [] OTHER -> calls[p].element = "video" /\ calls[p].attribute = "controls"

(* the documentation URL of the entity of call p *)
ReferenceUrl(p) ==
    "https://developer.mozilla.org/" \o calls[p].language \o "/docs/Web/HTML/"
    \o (CASE calls[p].entry = "fetchHtmlElement" -> "Element/" \o calls[p].element
          [] calls[p].entry = "fetchGlobalAttribute" ->
                "Global_attributes/" \o calls[p].attribute
          [] OTHER -> "Attributes/" \o calls[p].attribute)

(* C18: whenever a fetch entry point got documentation, its result is a    *)
(* RichDoc made of the sanitized HTML, then the compatibility line if and  *)
(* only if the dataset holds data for the entity (no line otherwise, also  *)
(* for an element attribute whose owning element is unknown), then the     *)
(* reference link to the documentation URL as the last part.               *)
C18_RichDocAssembly ==
    \A p \in Procs :
        (/\ calls[p].pc = "done"
         /\ IsFetchEntry(p)
         /\ calls[p].status = "returned"
         /\ calls[p].data.defined /\ calls[p].data.str # "")
        => LET doc == calls[p].outcome
           IN  /\ doc.kind = "RichDoc"
               /\ Len(doc.value) = IF HasCompatData(p) THEN 3 ELSE 2
               /\ doc.value[1] = calls[p].data.str
               /\ doc.value[Len(doc.value)] = "\n\n[MDN Reference](" \o ReferenceUrl(p) \o ")"
               /\ HasCompatData(p) => doc.compat.defined

(* C18, the assembly itself: for every entity but an element attribute     *)
(* whose owning element the dataset does not hold, the result is the       *)
(* sanitized HTML, the compatibility line when there is data, and the      *)
(* reference link last.                                                    *)
C18_AssemblyOfKnownOwners ==
    \A p \in Procs :
        (/\ calls[p].pc = "done"
         /\ IsFetchEntry(p)
         /\ calls[p].status = "returned"
         /\ calls[p].data.defined /\ calls[p].data.str # ""
         /\ ~(calls[p].entry = "fetchElementAttribute" /\ calls[p].element = "a"))
        => LET doc == calls[p].outcome
           IN  /\ doc.kind = "RichDoc"
               /\ Len(doc.value) = IF HasCompatData(p) THEN 3 ELSE 2
               /\ doc.value[1] = calls[p].data.str
               /\ doc.value[Len(doc.value)] = "\n\n[MDN Reference](" \o ReferenceUrl(p) \o ")"


(***************************************************************************)
(* The browser compatibility summarizer.                                   *)
(***************************************************************************)
(* the first statement of the i-th entry of the block being summarized *)
ChosenStatement(i) == summarizer.entries[i].support[1]

(* a concrete version string: a string other than the "preview" sentinel *)
Concrete(v) == v.type = "string" /\ v.str # "" /\ v.str # "preview"

(* C19: for each browser the reported version is version_added if it is a  *)
(* version, otherwise version_removed; a browser for which neither is a    *)
(* concrete version string (a boolean, null, or "preview") has no entry.   *)
C19_VersionRule ==
    \A i \in DOMAIN summarizer.mapped :
        LET s == ChosenStatement(i)
        IN  /\ (~Concrete(s.version_added) /\ ~Concrete(s.version_removed))
                  => summarizer.mapped[i] = << >>
            /\ summarizer.mapped[i] # << >>
                  => summarizer.mapped[i][1].version =
                        IF s.version_added.type = "string"
                           THEN s.version_added.str
                           ELSE s.version_removed.str

(* C19, with every string taken for a version: a browser has an entry      *)
(* exactly when version_added is a string, or is null or false while       *)
(* version_removed is a string; version_added: true gives no entry.        *)
C19_VersionRuleOfStrings ==
    \A i \in DOMAIN summarizer.mapped :
        LET s == ChosenStatement(i)
        IN  /\ summarizer.mapped[i] # << >>
                  <=> \/ s.version_added.type = "string"
                      \/ /\ s.version_added \in {VersionNull, VersionBool(FALSE)}
                         /\ s.version_removed.type = "string"
            /\ summarizer.mapped[i] # << >>
                  => summarizer.mapped[i][1].version =
                        IF s.version_added.type = "string"
                           THEN s.version_added.str
                           ELSE s.version_removed.str

(* C20: every entry of the summary has present true iff its statement has  *)
(* an added version, and carries the display name of its browser, or the   *)
(* identifier itself when the table does not hold it; chrome with          *)
(* version_added "32" gives Chrome, "32", present.                         *)
C20_SupportFlag ==
    \A i \in DOMAIN summarizer.mapped :
        LET s == ChosenStatement(i)
            browser == summarizer.entries[i].browser
        IN  /\ summarizer.mapped[i] # << >> =>
                 /\ summarizer.mapped[i][1].present
                       <=> s.version_added \notin {VersionNull, VersionBool(FALSE)}
                 /\ summarizer.mapped[i][1].browser =
                       CASE browser = "chrome" -> "Chrome"
                         [] browser = "ie"     -> "IE"
                         [] OTHER              -> browser
            /\ (browser = "chrome" /\ s.version_added = VersionString("32"))
                  => summarizer.mapped[i] =
                        << [browser |-> "Chrome", version |-> "32", present |-> TRUE] >>

C20_Witness ==
    /\ summarizer.pc = "done"
    /\ Len(summarizer.entries) = 2
    /\ summarizer.entries[1].browser = "chrome"
    /\ ChosenStatement(1).version_added = VersionString("32")
    /\ summarizer.entries[2].browser = "servo"
    /\ ChosenStatement(2).version_added = VersionBool(FALSE)
    /\ summarizer.result = << [browser |-> "Chrome", version |-> "32", present |-> TRUE],
                              [browser |-> "servo", version |-> "9", present |-> FALSE] >>


(* C21: a compatibility lookup for an entity without data gives no summary *)
(* and never raises: once getOrFetch has returned, the fetch entry point   *)
(* that made the lookup ends with a result, not with an error.             *)
C21_MissingCompatDataBenign ==
    \A p \in Procs :
        (/\ calls[p].pc = "done"
         /\ IsFetchEntry(p)
         /\ calls[p].status = "returned")
        => calls[p].outcome.kind \in {"Absent", "RichDoc"}

(* C21, for the lookups that guard the entity: an element, a global        *)
(* attribute, and an attribute of an element the dataset holds, give a     *)
(* result without the compatibility line when the dataset has no data.     *)
C21_GuardedLookupsBenign ==
    \A p \in Procs :
        (/\ calls[p].pc = "done"
         /\ IsFetchEntry(p)
         /\ calls[p].status = "returned"
         /\ ~(calls[p].entry = "fetchElementAttribute"
              /\ calls[p].element \notin {""} \cup DOMAIN bcdElementAttributes))
        => /\ calls[p].outcome.kind \in {"Absent", "RichDoc"}
           /\ (calls[p].outcome.kind = "RichDoc" /\ ~HasCompatData(p))
                 => Len(calls[p].outcome.value) = 2


(***************************************************************************)
(* The hover providers.                                                    *)
(***************************************************************************)
(* C22: a hover request whose cancellation token is already set when       *)
(* provideHover is entered is abandoned: no network fetch is made for it.  *)
C22_CancelledAtEntry ==
    \A p \in Procs : hover[p].cancelledAtEntry => calls[p].invoked = 0


FirstStatementGivesEntry(entry) ==
    LET s == entry.support[1]
    IN  \/ s.version_added.type = "string"
        \/ /\ s.version_added \in {VersionNull, VersionBool(FALSE)}
           /\ s.version_removed.type = "string"

(* C24: the entry of a browser, or its omission, is decided by the first   *)
(* of its support statements alone, whatever a later statement says; the   *)
(* summary has at most one entry per browser, and its entries are in the   *)
(* order of the browsers in the dataset.                                   *)
C24_FirstStatementOnly ==
    summarizer.pc = "done" =>
        LET kept == SelectSeq(summarizer.entries, FirstStatementGivesEntry)
        IN  /\ Len(summarizer.result) = Len(kept)
            /\ \A k \in DOMAIN kept :
                  LET s == kept[k].support[1]
                  IN  /\ summarizer.result[k].browser =
                            CASE kept[k].browser = "chrome" -> "Chrome"
                              [] kept[k].browser = "ie"     -> "IE"
                              [] OTHER                      -> kept[k].browser
                      /\ summarizer.result[k].version =
                            IF s.version_added.type = "string"
                               THEN s.version_added.str
                               ELSE s.version_removed.str
            /\ \A k, l \in DOMAIN summarizer.result :
                  summarizer.result[k].browser = summarizer.result[l].browser => k = l

(* a browser whose first statement has no version and whose second has one *)
(* is left out, after a browser that has an entry                          *)
C24_Witness ==
    /\ summarizer.pc = "done"
    /\ Len(summarizer.entries) = 2
    /\ summarizer.entries[1].browser = "ie"
    /\ summarizer.entries[1].support[1].version_added = VersionString("32")
    /\ summarizer.entries[2].browser = "chrome"
    /\ Len(summarizer.entries[2].support) = 2
    /\ summarizer.entries[2].support[1].version_added = VersionBool(TRUE)
    /\ summarizer.entries[2].support[2].version_added = VersionString("1")
    /\ Len(summarizer.result) = 1
    /\ summarizer.result[1].browser = "IE"

(***************************************************************************)
(* The choice of the content region.                                       *)
(***************************************************************************)
(* element i of the document being extracted is a div of class             *)
(* section-content                                                         *)
IsContentDiv(i) ==
    /\ "section-content" \in extraction.document[i].classList
    /\ extraction.document[i].tagName \in {"div", "DIV"}

(* C25: extraction selects the first element that has class                *)
(* section-content and is a div; an element of that class with another tag *)
(* is never selected, and a section or an article is never taken instead   *)
(* of such a div, wherever they stand in the document.                     *)
C25_ContentRegionPreference ==
    extraction.pc \in {"cleanDocumentation", "undefined"} =>
        LET chosen == extraction.sectionContent
        IN  /\ chosen # 0 =>
                  /\ IsContentDiv(chosen)
                  /\ \A i \in DOMAIN extraction.document : IsContentDiv(i) => chosen <= i
            /\ (\E i \in DOMAIN extraction.document : IsContentDiv(i)) => chosen # 0
            /\ (extraction.pc = "undefined") <=> (chosen = 0)

(* a section of the class and an article stand before the div of the class *)
C25_Witness ==
    /\ extraction.pc = "cleanDocumentation"
    /\ Len(extraction.document) = 3
    /\ extraction.document[1] = [tagName |-> "section", classList |-> {"section-content"}]
    /\ extraction.document[2].tagName = "article"
    /\ extraction.document[3] = [tagName |-> "div", classList |-> {"section-content"}]
    /\ extraction.sectionContent = 3

(***************************************************************************)
(* Negative results.                                                       *)
(***************************************************************************)
(* an unexpired entry of the current version whose data is undefined *)
NegativeEntry(item) ==
    /\ item # NoItem
    /\ ~item.data.defined
    /\ item.expiresAt > now
    /\ item.version = "1.0.1"

(* C26: a producer result of no content is stored like any other value: it *)
(* goes into the memory tier and into the persistent record; while such an *)
(* entry is unexpired a call that finds it in the memory tier, or reads it *)
(* back from the persistent tier, returns no content and invokes no        *)
(* producer.                                                               *)
C26_NegativeResultsCached ==
    [][\A p \in Procs :
          /\ (Stores(p) /\ ~calls'[p].data.defined) =>
                /\ NegativeEntry(memoryCache'[calls[p].key])
                /\ memoryCache'[calls[p].key] = calls'[p].item
          /\ (WriteDone(p) /\ calls'[p].status = "returned" /\ ~calls[p].item.data.defined) =>
                /\ HoldsRecord(disk'[calls[p].key])
                /\ JSONParse(disk'[calls[p].key].content) = calls[p].item
          /\ (Issued(p) /\ NegativeEntry(memoryCache[calls'[p].key])) =>
                /\ calls'[p].pc = "done" /\ calls'[p].status = "returned"
                /\ ~calls'[p].data.defined
                /\ calls'[p].invoked = 0
          /\ (calls[p].pc = "read" /\ calls'[p].pc # "read"
              /\ HoldsRecord(disk[calls[p].key])
              /\ NegativeEntry(JSONParse(disk[calls[p].key].content))) =>
                /\ calls'[p].pc = "done" /\ calls'[p].status = "returned"
                /\ ~calls'[p].data.defined
                /\ calls'[p].invoked = 0
                /\ NegativeEntry(memoryCache'[calls[p].key])]_vars

(* a call stored and returned no content; after the memory tier was        *)
(* cleared a later call read the entry back from the persistent tier and   *)
(* returned no content with no producer call                               *)
C26_Witness ==
    \E a, b \in Procs :
        /\ a < b
        /\ calls[a].key = calls[b].key
        /\ calls[a].served = "producer" /\ calls[a].status = "returned"
        /\ ~calls[a].data.defined
        /\ calls[b].pc = "done" /\ calls[b].served = "disk"
        /\ calls[b].found = "valid"
        /\ ~calls[b].data.defined
        /\ calls[b].invoked = 0
        /\ memoryCache[calls[a].key] = calls[a].item

(***************************************************************************)
(* A producer that raises.                                                 *)
(***************************************************************************)
(* the producer of call p raised and getOrFetch passed the error on *)
ProducerRaised(p) ==
    /\ calls[p].pc = "done"
    /\ calls[p].status = "raised"
    /\ calls[p].invoked = 1
    /\ calls[p].item = NoItem

(* C27: when the producer raises, getOrFetch passes the error on and the   *)
(* step changes neither tier: no entry is created, overwritten or deleted; *)
(* the next getOrFetch on the key, issued when that call is over, invokes  *)
(* the producer again.                                                     *)
C27_ProducerFailureLeavesCache ==
    /\ [][\A p \in Procs :
            (calls[p].pc = "fetch" /\ calls'[p].pc = "done")
            => /\ calls'[p].status = "raised"
               /\ calls'[p].item = NoItem
               /\ memoryCache' = memoryCache
               /\ disk' = disk]_vars
    /\ [](\A a, b \in Procs :
            (/\ b = a + 1
             /\ calls[a].key = calls[b].key
             /\ ProducerRaised(a)
             /\ calls[b].pc \in {"fetch", "write", "done"})
            => /\ calls[b].invoked = 1
               /\ calls[b].served \notin {"memory", "disk"})

(* the producer of a call raised with both tiers empty for the key, and    *)
(* the next call on the key ran its producer and returned what it gave     *)
C27_Witness ==
    \E a, b \in Procs :
        /\ b = a + 1
        /\ calls[a].key = calls[b].key
        /\ ProducerRaised(a)
        /\ calls[a].found = "absent"
        /\ calls[b].pc = "done" /\ calls[b].status = "returned"
        /\ calls[b].served = "producer"
        /\ calls[b].invoked = 1

(***************************************************************************)
(* The two tiers after concurrent misses.                                  *)
(***************************************************************************)
(* the calls on key k that stored an entry and returned *)
StoredFor(k) ==
    { p \in Procs : /\ calls[p].key = k
                    /\ calls[p].pc = "done"
                    /\ calls[p].status = "returned"
                    /\ calls[p].served = "producer" }

(* every call made on key k has returned, and one of them stored an entry *)
AllSettled(k) ==
    /\ \A p \in Procs :
          calls[p].key = k => (calls[p].pc = "done" /\ calls[p].status = "returned")
    /\ StoredFor(k) # {}

(* C28 as stated: once all calls on a key have completed successfully, the *)
(* memory tier and the persistent tier hold the same entry for the key,    *)
(* under every interleaving of concurrent misses.                          *)
C28_TierCoherence ==
    \A k \in Keys :
        AllSettled(k) => /\ HoldsRecord(disk[k])
                         /\ memoryCache[k] = JSONParse(disk[k].content)

(* C28 as amended: once all calls on a key have completed successfully,    *)
(* each tier holds for the key the whole entry one of the calls built, and *)
(* the two tiers hold the same entry when a single call stored one; after  *)
(* concurrent misses the tiers may hold the entries of different calls.    *)
C28_TiersHoldCallEntries ==
    \A k \in Keys :
        AllSettled(k) =>
            /\ \E p \in StoredFor(k) : memoryCache[k] = calls[p].item
            /\ HoldsRecord(disk[k])
            /\ \E q \in StoredFor(k) : JSONParse(disk[k].content) = calls[q].item
            /\ Cardinality(StoredFor(k)) = 1 => memoryCache[k] = JSONParse(disk[k].content)

(* two calls missed the key together; the later store is in the memory     *)
(* tier and the write that ended last left the other entry in the record   *)
C28_Witness ==
    \E a, b \in Procs :
        /\ a # b
        /\ calls[a].key = calls[b].key
        /\ AllSettled(calls[a].key)
        /\ StoredFor(calls[a].key) = {a, b}
        /\ calls[a].item # calls[b].item
        /\ memoryCache[calls[a].key] = calls[b].item
        /\ JSONParse(disk[calls[a].key].content) = calls[a].item


(***************************************************************************)
(* The sweep among concurrent calls.                                       *)
(***************************************************************************)
(* C29: under every interleaving with getOrFetch calls, an entry that      *)
(* cleanCache deletes from either tier is expired at the moment it is      *)
(* deleted.                                                                *)
C29_SweepSparesLiveData ==
    [][SweepStep =>
          \A k \in Keys :
             /\ memoryCache'[k] # memoryCache[k] =>
                   /\ memoryCache[k] # NoItem
                   /\ memoryCache[k].expiresAt <= now
             /\ disk'[k] # disk[k] =>
                   /\ HoldsRecord(disk[k])
                   /\ disk[k].content.expiresAt <= now]_vars

(* C29, the memory tier alone: the entries the sweep removes from the      *)
(* memory tier are expired when they are removed.                          *)
C29_MemorySweepSparesLiveData ==
    [][SweepStep =>
          \A k \in Keys :
             memoryCache'[k] # memoryCache[k] =>
                /\ memoryCache[k] # NoItem
                /\ memoryCache[k].expiresAt <= now
                /\ memoryCache'[k] = NoItem]_vars


(***************************************************************************)
(* The lifetime of an entry.                                               *)
(***************************************************************************)
(* C30: a cache hit never changes an entry: a call served from the memory  *)
(* tier leaves both tiers as they are, and a promotion copies the          *)
(* persistent record into the memory tier with its expiresAt, timestamp    *)
(* and version and leaves the record as it is; so an entry is served only  *)
(* within 24 hours of its production, however often it is read.            *)
C30_NoSlidingExpiry ==
    [][\A p \in Procs :
          /\ (Issued(p) /\ calls'[p].served = "memory") =>
                LET k == calls'[p].key
                IN  /\ memoryCache' = memoryCache
                    /\ disk' = disk
                    /\ calls'[p].data = memoryCache[k].data
                    /\ now < memoryCache[k].timestamp + 24 * 60 * 60 * 1000
          /\ (ReadDone(p) /\ calls'[p].served = "disk") =>
                LET k == calls[p].key
                    record == disk[k].content
                IN  /\ disk' = disk
                    /\ memoryCache'[k].expiresAt = record.expiresAt
                    /\ memoryCache'[k].timestamp = record.timestamp
                    /\ memoryCache'[k].version = record.version
                    /\ \A j \in Keys \ {k} : memoryCache'[j] = memoryCache[j]
                    /\ now < record.timestamp + 24 * 60 * 60 * 1000]_vars

(* an entry produced twelve hours before was promoted by one call and      *)
(* served from the memory tier to the next, and still carries the stamps   *)
(* of its production in both tiers                                         *)
C30_Witness ==
    \E a, b \in Procs :
        /\ a < b
        /\ calls[a].key = calls[b].key
        /\ calls[a].served = "disk"
        /\ calls[b].served = "memory"
        /\ memoryCache[calls[a].key] # NoItem
        /\ memoryCache[calls[a].key].timestamp < now
        /\ memoryCache[calls[a].key].expiresAt
              = memoryCache[calls[a].key].timestamp + 24 * 60 * 60 * 1000
        /\ HoldsRecord(disk[calls[a].key])
        /\ JSONParse(disk[calls[a].key].content) = memoryCache[calls[a].key]
====
